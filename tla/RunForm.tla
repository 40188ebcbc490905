------------------------------ MODULE RunForm ------------------------------
(***************************************************************************)
(* The page that runs a recipe (core/ui/js/cards/manufacturing.js).  A     *)
(* choice in the list of recipes fetches the recipe, and its answer fills  *)
(* the projection and decides what the button runs.  Answers arrive in any *)
(* order, or fail.  A run posts, fetches the chosen recipe again and then  *)
(* the recent runs.  No answer is compared with what is chosen by then.    *)
(***************************************************************************)
EXTENDS Naturals, FiniteSets

CONSTANTS Recipes,    \* recipes of the list
          NoRecipe,   \* nothing chosen, nothing selected
          NoRun,      \* a fetch that no run waits for
          MaxFetches, \* bound on recipes fetched
          MaxPosted   \* bound on runs posting

ASSUME RunFormAssumption ==
  NoRecipe \notin Recipes /\ MaxFetches \in Nat /\ MaxPosted \in Nat
    /\ NoRun \notin 1 .. MaxPosted

VARIABLES
  chosen,   \* the value of the list
  selected, \* _state.selectedRecipe, whose projection is on screen
  enabled,  \* the button
  fetches,  \* recipes that have been asked for
  nFetches,
  posting,   \* what runs wait for: "post" or "recent"; one that waits for a
            \* recipe is named by the fetch
  nRuns,
  newest,   \* history: the newest fetch when the page last changed
  misled    \* history: a fetch was overtaken by a later choice, or failed

runFormVars == <<chosen, selected, enabled, fetches, nFetches, posting, nRuns,
                 newest, misled>>

\* Mutant: nothing chosen leaves what was selected before.
ClearButton == enabled' = FALSE /\ UNCHANGED selected
\* Nothing is selected, and the projection is empty.
Clear == enabled' = FALSE /\ selected' = NoRecipe

FetchFor(r, run) ==
  /\ nFetches < MaxFetches
  /\ nFetches' = nFetches + 1
  /\ fetches' = fetches \cup {[n |-> nFetches + 1, recipe |-> r, run |-> run]}

\* updateProjection, up to its answer.
Choose(r) ==
  /\ chosen' = r
  /\ IF r = NoRecipe
     THEN Clear /\ newest' = nFetches /\ UNCHANGED <<fetches, nFetches>>
     ELSE FetchFor(r, NoRun) /\ UNCHANGED <<selected, enabled, newest>>
  /\ UNCHANGED <<posting, nRuns, misled>>

\* A run whose recipe has been fetched goes on to the recent runs.
Resumed(f) ==
  IF f.run = NoRun THEN posting
  ELSE posting \cup {[n |-> f.run, at |-> "recent"]}

\* A recipe that is archived by now is taken off the page.
RecipeArrives(f) ==
  /\ \/ selected' = f.recipe /\ enabled' = TRUE
     \/ Clear
  /\ fetches' = fetches \ {f}
  /\ posting' = Resumed(f)
  /\ newest' = f.n
  /\ misled' = (misled \/ f.n <= newest)
  /\ UNCHANGED <<chosen, nFetches, nRuns>>

\* The page goes on showing what it showed.
RecipeFails(f) ==
  /\ fetches' = fetches \ {f}
  /\ posting' = Resumed(f)
  /\ misled' = TRUE
  /\ UNCHANGED <<chosen, selected, enabled, nFetches, nRuns, newest>>

\* A click that the user confirms.
Run ==
  /\ enabled /\ selected # NoRecipe /\ nRuns < MaxPosted
  /\ enabled' = FALSE
  /\ nRuns' = nRuns + 1
  /\ posting' = posting \cup {[n |-> nRuns + 1, at |-> "post"]}
  /\ UNCHANGED <<chosen, selected, fetches, nFetches, newest, misled>>

\* Done: the projection of whatever is chosen now is fetched again.
RunDone(t) ==
  /\ t.at = "post"
  /\ IF chosen = NoRecipe
     THEN /\ Clear
          /\ newest' = nFetches
          /\ posting' = (posting \ {t}) \cup {[t EXCEPT !.at = "recent"]}
          /\ UNCHANGED <<fetches, nFetches>>
     ELSE /\ FetchFor(chosen, t.n)
          /\ posting' = posting \ {t}
          /\ UNCHANGED <<selected, enabled, newest>>
  /\ UNCHANGED <<chosen, nRuns, misled>>

\* It was refused, or the recent runs have been painted or not.
RunEnds(t) ==
  /\ posting' = posting \ {t}
  /\ enabled' = TRUE
  /\ UNCHANGED <<chosen, selected, fetches, nFetches, nRuns, newest, misled>>

RunFormInit ==
  /\ chosen = NoRecipe /\ selected = NoRecipe /\ enabled = FALSE
  /\ fetches = {} /\ nFetches = 0 /\ posting = {} /\ nRuns = 0
  /\ newest = 0 /\ misled = FALSE

RunFormNext ==
  \/ \E r \in Recipes \cup {NoRecipe} : Choose(r)
  \/ \E f \in fetches : RecipeArrives(f) \/ RecipeFails(f)
  \/ Run
  \/ \E t \in posting : RunDone(t) \/ RunEnds(t)

RunFormSpec == RunFormInit /\ [][RunFormNext]_runFormVars
-----------------------------------------------------------------------------
(* Properties *)

\* Type invariant of the form, its fetches and its runs.
RunFormTypeOK ==
  /\ {chosen, selected} \subseteq Recipes \cup {NoRecipe}
  /\ {enabled, misled} \subseteq BOOLEAN
  /\ nFetches \in 0 .. MaxFetches /\ nRuns \in 0 .. MaxPosted
  /\ newest \in 0 .. nFetches
  /\ fetches \subseteq [n : 1 .. nFetches, recipe : Recipes,
                        run : 1 .. nRuns \cup {NoRun}]
  /\ posting \subseteq [n : 1 .. nRuns, at : {"post", "recent"}]

\* What the button runs is what is chosen, or nothing, once every answer has
\* come, unless one was overtaken or failed.
RunIsOfChosen ==
  fetches = {} /\ ~misled => selected \in {chosen, NoRecipe}
=============================================================================
