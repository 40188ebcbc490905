---------------------------- MODULE Pages_proofs ----------------------------
(***************************************************************************)
(* The pages of the web interface: what is on screen, what was chosen and  *)
(* what is sent agree, for any number of clicks and any order of the       *)
(* answers but the one each invariant names.                               *)
(***************************************************************************)
EXTENDS RunForm, RecipeEditor, Contacts, ItemDialogs, RestorePage, LogPage,
        SequenceTheorems, TLAPS

-----------------------------------------------------------------------------
(* The form for a run *)

\* The last recipe that was asked for is the chosen one and has not come, or
\* what is selected is what is chosen.
NewestInv ==
  ~misled =>
    /\ \A f \in fetches : f.n = nFetches /\ newest < f.n => f.recipe = chosen
    /\ newest < nFetches => \E f \in fetches : f.n = nFetches
    /\ newest = nFetches => selected \in {chosen, NoRecipe}

\* A fetch is added to the others.
LEMMA FetchTyped ==
  ASSUME RunFormTypeOK, NEW r \in Recipes, NEW run \in 1 .. nRuns \cup {NoRun},
         FetchFor(r, run)
  PROVE  /\ nFetches' \in 0 .. MaxFetches /\ nFetches' = nFetches + 1
         /\ newest \in 0 .. nFetches' /\ newest < nFetches'
         /\ fetches' \subseteq [n : 1 .. nFetches', recipe : Recipes,
                                run : 1 .. nRuns \cup {NoRun}]
         /\ \E f \in fetches' : f.n = nFetches'
         /\ \A f \in fetches' : f.n = nFetches' => f.recipe = r
<1> DEFINE Fs == [n : 1 .. nFetches', recipe : Recipes,
                  run : 1 .. nRuns \cup {NoRun}]
           new == [n |-> nFetches + 1, recipe |-> r, run |-> run]
<1>1. nFetches \in 0 .. MaxFetches /\ newest \in 0 .. nFetches
  BY DEF RunFormTypeOK
<1>2. nFetches' = nFetches + 1 /\ nFetches < MaxFetches
  BY DEF FetchFor
<1>3. /\ nFetches' \in 0 .. MaxFetches /\ newest \in 0 .. nFetches'
      /\ newest < nFetches'
  BY <1>1, <1>2, RunFormAssumption
<1>4. fetches \subseteq Fs
  BY <1>1, <1>2, RunFormAssumption DEF RunFormTypeOK
<1>5. new \in Fs
  BY <1>1, <1>2, RunFormAssumption
<1>6. /\ fetches' = fetches \cup {new} /\ new.n = nFetches'
      /\ new.recipe = r
  BY <1>2 DEF FetchFor
<1>7. \A f \in fetches : f.n # nFetches'
  BY <1>1, <1>2, RunFormAssumption DEF RunFormTypeOK
<1> HIDE DEF Fs, new
<1>8. fetches' \subseteq Fs
  BY <1>4, <1>5, <1>6
<1>9. /\ \E f \in fetches' : f.n = nFetches'
      /\ \A f \in fetches' : f.n = nFetches' => f.recipe = r
  BY <1>6, <1>7
<1> QED
  BY <1>2, <1>3, <1>8, <1>9 DEF Fs

\* A run that waits for a recipe is one of the runs.
LEMMA ResumedTyped ==
  ASSUME RunFormTypeOK, NEW f \in fetches
  PROVE  /\ Resumed(f) \subseteq [n : 1 .. nRuns, at : {"post", "recent"}]
         /\ f.n \in 1 .. nFetches /\ f.recipe \in Recipes
<1>1. /\ f \in [n : 1 .. nFetches, recipe : Recipes,
                run : 1 .. nRuns \cup {NoRun}]
      /\ posting \subseteq [n : 1 .. nRuns, at : {"post", "recent"}]
  BY DEF RunFormTypeOK
<1>2. /\ f.n \in 1 .. nFetches /\ f.recipe \in Recipes
      /\ f.run \in 1 .. nRuns \cup {NoRun}
  BY <1>1
<1>3. f.run # NoRun =>
        [n |-> f.run, at |-> "recent"] \in [n : 1 .. nRuns,
                                            at : {"post", "recent"}]
  BY <1>2
<1> QED
  BY <1>1, <1>2, <1>3 DEF Resumed

\* A step of the form keeps its types.
LEMMA RunFormNextTyped ==
  ASSUME RunFormTypeOK, RunFormNext
  PROVE  RunFormTypeOK'
<1> DEFINE Fs == [n : 1 .. nFetches, recipe : Recipes,
                  run : 1 .. nRuns \cup {NoRun}]
           Ts == [n : 1 .. nRuns, at : {"post", "recent"}]
<1>0. /\ fetches \subseteq Fs /\ posting \subseteq Ts
      /\ nFetches \in 0 .. MaxFetches /\ nRuns \in 0 .. MaxPosted
      /\ newest \in 0 .. nFetches /\ nFetches \in 0 .. nFetches
  BY RunFormAssumption DEF RunFormTypeOK
<1>1. ASSUME NEW r \in Recipes \cup {NoRecipe}, Choose(r)
      PROVE  RunFormTypeOK'
  <2>1. CASE r = NoRecipe
    BY <1>0, <1>1, <2>1 DEF Choose, Clear, RunFormTypeOK
  <2>2. CASE r # NoRecipe
    <3>1. FetchFor(r, NoRun) /\ NoRun \in 1 .. nRuns \cup {NoRun}
      BY <1>1, <2>2 DEF Choose
    <3> QED
      BY <1>1, <2>2, <3>1, FetchTyped DEF Choose, RunFormTypeOK
  <2> QED
    BY <2>1, <2>2
<1>2. ASSUME NEW f \in fetches, RecipeArrives(f)
      PROVE  RunFormTypeOK'
  <2>1. posting' \subseteq Ts /\ f.n \in 0 .. nFetches /\ f.recipe \in Recipes
    BY <1>0, <1>2, ResumedTyped DEF RecipeArrives
  <2>2. fetches' \subseteq Fs
    BY <1>0, <1>2 DEF RecipeArrives
  <2>3. /\ newest' = f.n /\ misled' \in BOOLEAN
        /\ UNCHANGED <<chosen, nFetches, nRuns>>
    BY <1>2 DEF RecipeArrives
  <2>4. {selected'} \subseteq Recipes \cup {NoRecipe} /\ enabled' \in BOOLEAN
    BY <1>2, <2>1 DEF RecipeArrives, Clear
  <2> QED
    BY <2>1, <2>2, <2>3, <2>4 DEF RunFormTypeOK
<1>3. ASSUME NEW f \in fetches, RecipeFails(f)
      PROVE  RunFormTypeOK'
  <2>1. posting' \subseteq Ts
    BY <1>3, ResumedTyped DEF RecipeFails
  <2>2. fetches' \subseteq Fs
    BY <1>0, <1>3 DEF RecipeFails
  <2> QED
    BY <1>3, <2>1, <2>2 DEF RunFormTypeOK, RecipeFails
<1>4. CASE Run
  <2>1. /\ nRuns' = nRuns + 1 /\ nRuns' \in 0 .. MaxPosted
        /\ fetches' = fetches
        /\ posting' = posting \cup {[n |-> nRuns + 1, at |-> "post"]}
    BY <1>0, <1>4, RunFormAssumption DEF Run
  <2>2. fetches' \subseteq [n : 1 .. nFetches, recipe : Recipes,
                            run : 1 .. nRuns' \cup {NoRun}]
    BY <1>0, <2>1, RunFormAssumption
  <2>3. [n |-> nRuns + 1, at |-> "post"] \in [n : 1 .. nRuns',
                                              at : {"post", "recent"}]
    BY <1>0, <2>1, RunFormAssumption
  <2>4. posting \subseteq [n : 1 .. nRuns', at : {"post", "recent"}]
    BY <1>0, <2>1, RunFormAssumption
  <2> QED
    BY <1>4, <2>1, <2>2, <2>3, <2>4 DEF RunFormTypeOK, Run
<1>5. ASSUME NEW t \in posting, RunDone(t)
      PROVE  RunFormTypeOK'
  <2>1. t \in Ts /\ t.n \in 1 .. nRuns
    BY <1>0
  <2>2. CASE chosen = NoRecipe
    <3>1. [t EXCEPT !.at = "recent"] \in Ts
      BY <2>1
    <3>2. posting' \subseteq Ts
      BY <1>0, <1>5, <2>2, <3>1 DEF RunDone
    <3> QED
      BY <1>0, <1>5, <2>2, <3>2 DEF RunDone, Clear, RunFormTypeOK
  <2>3. CASE chosen # NoRecipe
    <3>1. /\ FetchFor(chosen, t.n) /\ chosen \in Recipes
          /\ t.n \in 1 .. nRuns \cup {NoRun}
      BY <1>5, <2>1, <2>3 DEF RunDone, RunFormTypeOK
    <3>2. posting' \subseteq Ts
      BY <1>0, <1>5, <2>3 DEF RunDone
    <3> QED
      BY <1>5, <2>3, <3>1, <3>2, FetchTyped DEF RunDone, RunFormTypeOK
  <2> QED
    BY <2>2, <2>3
<1>6. ASSUME NEW t \in posting, RunEnds(t)
      PROVE  RunFormTypeOK'
  <2>1. posting' \subseteq Ts
    BY <1>0, <1>6 DEF RunEnds
  <2> QED
    BY <1>6, <2>1 DEF RunEnds, RunFormTypeOK
<1> QED
  BY <1>1, <1>2, <1>3, <1>4, <1>5, <1>6 DEF RunFormNext

\* The form keeps its types.
THEOREM RunFormTypes == RunFormSpec => []RunFormTypeOK
<1>1. RunFormInit => RunFormTypeOK
  <2> SUFFICES ASSUME RunFormInit
               PROVE  RunFormTypeOK
    OBVIOUS
  <2>1. /\ nFetches \in 0 .. MaxFetches /\ nRuns \in 0 .. MaxPosted
        /\ newest \in 0 .. nFetches
    BY RunFormAssumption DEF RunFormInit
  <2>2. /\ {chosen, selected} \subseteq Recipes \cup {NoRecipe}
        /\ {enabled, misled} \subseteq BOOLEAN
        /\ fetches = {} /\ posting = {}
    BY DEF RunFormInit
  <2> QED
    BY <2>1, <2>2 DEF RunFormTypeOK
<1>2. RunFormTypeOK /\ [RunFormNext]_runFormVars => RunFormTypeOK'
  <2>1. UNCHANGED runFormVars /\ RunFormTypeOK => RunFormTypeOK'
    BY DEF runFormVars, RunFormTypeOK
  <2>2. RunFormTypeOK /\ RunFormNext => RunFormTypeOK'
    BY RunFormNextTyped
  <2> QED
    BY <2>1, <2>2
<1> QED
  BY <1>1, <1>2, PTL DEF RunFormSpec

\* A step keeps the chosen recipe asked for last, or selected.
LEMMA NewestKept ==
  ASSUME RunFormTypeOK, NewestInv, RunFormNext
  PROVE  NewestInv'
<1> SUFFICES ASSUME ~misled'
             PROVE  NewestInv'
  BY DEF NewestInv
<1>0. nFetches \in Nat /\ newest \in 0 .. nFetches
  BY RunFormAssumption DEF RunFormTypeOK
<1>a. ASSUME UNCHANGED <<chosen, selected, fetches, nFetches, newest, misled>>
      PROVE  NewestInv'
  BY <1>a DEF NewestInv
\* The page shows nothing, as nothing is chosen.
<1>b. ASSUME chosen' = NoRecipe, Clear, newest' = nFetches,
             UNCHANGED <<fetches, nFetches, misled>>
      PROVE  NewestInv'
  BY <1>b, <1>0 DEF NewestInv, Clear, RunFormTypeOK
\* What is chosen has been asked for.
<1>c. ASSUME NEW r \in Recipes, NEW run \in 1 .. nRuns \cup {NoRun},
             FetchFor(r, run), chosen' = r, newest' = newest
      PROVE  NewestInv'
  BY <1>c, <1>0, FetchTyped DEF NewestInv
<1>1. ASSUME NEW r \in Recipes \cup {NoRecipe}, Choose(r)
      PROVE  NewestInv'
  BY <1>1, <1>b, <1>c DEF Choose
<1>2. ASSUME NEW f \in fetches, RecipeArrives(f)
      PROVE  NewestInv'
  <2>0. ~(misled \/ f.n <= newest)
    BY <1>2 DEF RecipeArrives
  <2>1. /\ newest' = f.n /\ newest < f.n /\ ~misled
        /\ fetches' = fetches \ {f} /\ chosen' = chosen
        /\ nFetches' = nFetches
        /\ selected' \in {f.recipe, NoRecipe}
        /\ f.n \in 1 .. nFetches
    BY <1>0, <1>2, <2>0, ResumedTyped DEF RecipeArrives, Clear
  <2>2. CASE f.n = nFetches
    <3>1. f.recipe = chosen
      BY <2>1, <2>2 DEF NewestInv
    <3> QED
      BY <1>0, <2>1, <2>2, <3>1 DEF NewestInv
  <2>3. CASE f.n < nFetches
    <3>1. PICK k \in fetches : k.n = nFetches
      BY <1>0, <2>1, <2>3 DEF NewestInv
    <3>2. k \in fetches'
      BY <1>0, <2>1, <2>3, <3>1
    <3>3. \A g \in fetches' : g.n = nFetches' => g.recipe = chosen'
      BY <1>0, <2>1, <2>3 DEF NewestInv
    <3> QED
      BY <1>0, <2>1, <2>3, <3>1, <3>2, <3>3 DEF NewestInv
  <2> QED
    BY <1>0, <2>1, <2>2, <2>3
<1>3. ASSUME NEW f \in fetches, RecipeFails(f)
      PROVE  NewestInv'
  BY <1>3 DEF RecipeFails
<1>4. CASE Run
  BY <1>4, <1>a DEF Run
<1>5. ASSUME NEW t \in posting, RunDone(t)
      PROVE  NewestInv'
  <2>1. t.n \in 1 .. nRuns \cup {NoRun} /\ chosen \in Recipes \cup {NoRecipe}
    BY DEF RunFormTypeOK
  <2>2. CASE chosen = NoRecipe
    BY <1>5, <1>b, <2>2 DEF RunDone
  <2>3. CASE chosen # NoRecipe
    BY <1>5, <1>c, <2>1, <2>3 DEF RunDone
  <2> QED
    BY <2>2, <2>3
<1>6. ASSUME NEW t \in posting, RunEnds(t)
      PROVE  NewestInv'
  BY <1>6, <1>a DEF RunEnds
<1> QED
  BY <1>1, <1>2, <1>3, <1>4, <1>5, <1>6 DEF RunFormNext

\* What the button runs is what is chosen, or nothing, once every answer has
\* come, unless one was overtaken or failed.
THEOREM RunIsOfChosenSafe == RunFormSpec => []RunIsOfChosen
<1>1. RunFormInit => NewestInv
  BY DEF RunFormInit, NewestInv
<1>2. RunFormTypeOK /\ NewestInv /\ [RunFormNext]_runFormVars => NewestInv'
  <2>1. UNCHANGED runFormVars /\ NewestInv => NewestInv'
    BY DEF runFormVars, NewestInv
  <2>2. RunFormTypeOK /\ NewestInv /\ RunFormNext => NewestInv'
    BY NewestKept
  <2> QED
    BY <2>1, <2>2
<1>3. RunFormTypeOK /\ NewestInv => RunIsOfChosen
  BY RunFormAssumption DEF RunFormTypeOK, NewestInv, RunIsOfChosen
<1> QED
  BY <1>1, <1>2, <1>3, RunFormTypes, PTL DEF RunFormSpec

-----------------------------------------------------------------------------
(* The editor of recipes *)

\* The recipes a click may be about.
RecipeIds == Known \cup {Unsaved, NoDraft}

\* What a click may be.
ClickRecords == [does : {"none", "save", "delete"},
                 at : {"none", "token", "sent", "lists"},
                 shown : RecipeIds, id : RecipeIds]

\* As long as nothing has crossed, the draft is of the recipe on screen, and
\* the one click that is under way is about it.
DraftInv ==
  ~crossed =>
    /\ draft = form
    /\ \A c, k \in Clicks :
         click[c] # NoClick /\ click[k] # NoClick => c = k
    /\ \A c \in Clicks :
         /\ click[c].at \in {"token", "sent"} => click[c].shown = form
         /\ click[c].at = "sent" => click[c].id = form

\* The fields of no click.
LEMMA NoClickFacts ==
  /\ NoClick \in ClickRecords /\ NoClick.at = "none"
BY DEF NoClick, ClickRecords, RecipeIds

\* The fields of a click.
LEMMA ClickFacts ==
  ASSUME EditorTypeOK, NEW c \in Clicks
  PROVE  /\ click \in [Clicks -> ClickRecords]
         /\ click[c] \in ClickRecords
         /\ click[c].id \in RecipeIds /\ click[c].shown \in RecipeIds
         /\ click[c].does \in {"none", "save", "delete"}
         /\ click[c].at # "none" => click[c] # NoClick
<1>1. click \in [Clicks -> ClickRecords]
  BY DEF EditorTypeOK, ClickRecords, RecipeIds
<1>2. click[c] \in ClickRecords
  BY <1>1
<1> QED
  BY <1>1, <1>2, NoClickFacts DEF ClickRecords

\* One click moves on, the others stay.
LEMMA ClickSet ==
  ASSUME EditorTypeOK, NEW c \in Clicks, NEW r \in ClickRecords,
         click' = [click EXCEPT ![c] = r]
  PROVE  /\ click' \in [Clicks -> ClickRecords]
         /\ click'[c] = r
         /\ \A k \in Clicks : k # c => click'[k] = click[k]
BY ClickFacts

\* What becomes of a click on a button and of one that has the token.
LEMMA ClickOnFacts ==
  ASSUME EditorTypeOK, NEW c \in Clicks, NEW does \in {"save", "delete"},
         ClickOn(c, does)
  PROVE  /\ click[c] = NoClick
         /\ crossed' = (crossed \/ BusyEditor)
         /\ UNCHANGED <<onServer, draft, form, gets, nGets, hasToken>>
         /\ \E r \in ClickRecords :
              /\ click' = [click EXCEPT ![c] = r] /\ r.shown = form
              /\ r.at \in {"token", "sent"} /\ (r.at = "sent" => r.id = draft)
<1> DEFINE sent == [does |-> does, at |-> "sent", shown |-> form, id |-> draft]
           waits == [does |-> does, at |-> "token", shown |-> form,
                     id |-> NoDraft]
<1>1. sent \in ClickRecords /\ waits \in ClickRecords
  BY DEF ClickRecords, EditorTypeOK, RecipeIds
<1>2. /\ sent.shown = form /\ sent.at = "sent" /\ sent.id = draft
      /\ waits.shown = form /\ waits.at = "token"
  OBVIOUS
<1>3. click' = [click EXCEPT ![c] = IF hasToken THEN sent ELSE waits]
  BY DEF ClickOn, Sends
<1> HIDE DEF sent, waits
<1>4. \E r \in ClickRecords :
              /\ click' = [click EXCEPT ![c] = r] /\ r.shown = form
              /\ r.at \in {"token", "sent"} /\ (r.at = "sent" => r.id = draft)
  BY <1>1, <1>2, <1>3
<1> QED
  BY <1>4 DEF ClickOn

\* A click that is sent is about the draft.
LEMMA SendsFacts ==
  ASSUME EditorTypeOK, NEW c \in Clicks,
         Sends(c, click[c].does, click[c].shown)
  PROVE  \E r \in ClickRecords :
           /\ click' = [click EXCEPT ![c] = r] /\ r.shown = click[c].shown
           /\ r.at = "sent" /\ r.id = draft
<1> DEFINE r == [does |-> click[c].does, at |-> "sent",
                 shown |-> click[c].shown, id |-> draft]
<1>1. r \in ClickRecords
  BY ClickFacts DEF ClickRecords, EditorTypeOK, RecipeIds
<1>2. click' = [click EXCEPT ![c] = r]
  BY DEF Sends
<1>3. r.shown = click[c].shown /\ r.at = "sent" /\ r.id = draft
  OBVIOUS
<1> HIDE DEF r
<1> QED
  BY <1>1, <1>2, <1>3

\* A click that has deleted its recipe goes on to the lists.
LEMMA ListsFacts ==
  ASSUME EditorTypeOK, NEW c \in Clicks, RecipeDeleted(c)
  PROVE  /\ click[c] # NoClick
         /\ \E r \in ClickRecords :
              click' = [click EXCEPT ![c] = r] /\ r.at = "lists"
<1> DEFINE r == [does |-> click[c].does, at |-> "lists",
                 shown |-> click[c].shown, id |-> click[c].id]
<1>1. r \in ClickRecords
  BY ClickFacts DEF ClickRecords
<1>2. [click[c] EXCEPT !.at = "lists"] = r
  BY ClickFacts DEF ClickRecords
<1>3. click' = [click EXCEPT ![c] = [click[c] EXCEPT !.at = "lists"]]
  BY DEF RecipeDeleted
<1>4. click[c] # NoClick
  BY ClickFacts DEF RecipeDeleted
<1>5. r.at = "lists"
  OBVIOUS
<1> HIDE DEF r
<1> QED
  BY <1>1, <1>2, <1>3, <1>4, <1>5

\* A step of the editor or of the server keeps the types.
LEMMA EditorNextTyped ==
  ASSUME EditorTypeOK, EditorNext
  PROVE  EditorTypeOK'
<1>0. /\ onServer \subseteq Known /\ draft \in RecipeIds /\ form \in RecipeIds
      /\ {deletable, hasToken, crossed} \subseteq BOOLEAN
      /\ nGets \in 0 .. MaxGets /\ MaxGets \in Nat
      /\ gets \subseteq [n : 1 .. nGets, id : Known]
      /\ click \in [Clicks -> ClickRecords]
  BY RecipeEditorAssumption DEF EditorTypeOK, ClickRecords, RecipeIds
\* The parts of the type invariant.
<1>a. ASSUME onServer' \subseteq Known,
             draft' \in RecipeIds, form' \in RecipeIds,
             {deletable', hasToken', crossed'} \subseteq BOOLEAN,
             nGets' \in 0 .. MaxGets,
             gets' \subseteq [n : 1 .. nGets', id : Known],
             click' \in [Clicks -> ClickRecords]
      PROVE  EditorTypeOK'
  BY <1>a DEF EditorTypeOK, ClickRecords, RecipeIds
<1>1. ASSUME NEW r \in Saved \cup onServer, OpenRow(r)
      PROVE  EditorTypeOK'
  <2>1. nGets' = nGets + 1 /\ nGets' \in 0 .. MaxGets
    BY <1>0, <1>1 DEF OpenRow
  <2>2. gets \subseteq [n : 1 .. nGets', id : Known]
    BY <1>0, <2>1
  <2>3. [n |-> nGets + 1, id |-> r] \in [n : 1 .. nGets', id : Known]
    BY <1>0, <2>1 DEF Known
  <2>4. gets' \subseteq [n : 1 .. nGets', id : Known]
    BY <1>1, <2>2, <2>3 DEF OpenRow
  <2> QED
    BY <1>0, <1>1, <1>a, <2>1, <2>4 DEF OpenRow
<1>2. ASSUME NEW g \in gets, RowAnswered(g)
      PROVE  EditorTypeOK'
  <2>1. g.id \in RecipeIds
    BY <1>0 DEF RecipeIds
  <2>2. gets' \subseteq [n : 1 .. nGets', id : Known]
    BY <1>0, <1>2 DEF RowAnswered, HasRecipe
  <2>3. /\ draft' \in RecipeIds /\ form' \in RecipeIds
        /\ deletable' \in BOOLEAN /\ crossed' \in BOOLEAN
    BY <1>0, <1>2, <2>1 DEF RowAnswered, HasRecipe, Render, BusyEditor
  <2> QED
    BY <1>0, <1>2, <1>a, <2>2, <2>3 DEF RowAnswered, HasRecipe
<1>3. CASE NewRecipe
  <2>1. /\ draft' \in RecipeIds /\ form' \in RecipeIds
        /\ deletable' \in BOOLEAN /\ crossed' \in BOOLEAN
    BY <1>0, <1>3 DEF NewRecipe, Render, BusyEditor, RecipeIds
  <2> QED
    BY <1>0, <1>3, <1>a, <2>1 DEF NewRecipe
<1>4. CASE TokenLost
  BY <1>0, <1>4, <1>a DEF TokenLost
<1>5. ASSUME NEW c \in Clicks, ClickSave(c) \/ ClickDelete(c)
      PROVE  EditorTypeOK'
  <2>1. PICK does \in {"save", "delete"} : ClickOn(c, does)
    BY <1>5 DEF ClickSave, ClickDelete
  <2>2. deletable' \in BOOLEAN
    BY <1>0, <1>5 DEF ClickSave, ClickDelete
  <2>3. click' \in [Clicks -> ClickRecords]
    BY <2>1, ClickOnFacts, ClickSet
  <2>4. crossed' \in BOOLEAN
    BY <1>0, <2>1, ClickOnFacts DEF BusyEditor
  <2> QED
    BY <1>0, <1>a, <2>1, <2>2, <2>3, <2>4, ClickOnFacts
<1>6. ASSUME NEW c \in Clicks, GoesOn(c)
      PROVE  EditorTypeOK'
  <2>1. CASE draft = NoDraft
    <3>1. /\ click' = [click EXCEPT ![c] = NoClick]
          /\ deletable' \in BOOLEAN
      BY <1>0, <1>6, <2>1 DEF GoesOn, Fails
    <3> QED
      BY <1>0, <1>6, <1>a, <3>1, NoClickFacts DEF GoesOn
  <2>2. CASE draft # NoDraft
    <3>1. click' \in [Clicks -> ClickRecords] /\ deletable' = deletable
      BY <1>6, <2>2, SendsFacts, ClickSet DEF GoesOn
    <3> QED
      BY <1>0, <1>6, <1>a, <3>1 DEF GoesOn
  <2> QED
    BY <2>1, <2>2
<1>7. ASSUME NEW c \in Clicks, RecipeSaved(c)
      PROVE  EditorTypeOK'
  <2>1. click' \in [Clicks -> ClickRecords]
    BY <1>0, <1>7, NoClickFacts DEF RecipeSaved
  <2>2. /\ onServer' \subseteq Known
        /\ draft' \in RecipeIds /\ form' \in RecipeIds
    BY <1>0, <1>7 DEF RecipeSaved, Known, RecipeIds
  <2> QED
    BY <1>0, <1>7, <1>a, <2>1, <2>2 DEF RecipeSaved
<1>8. ASSUME NEW c \in Clicks, RecipeDeleted(c)
      PROVE  EditorTypeOK'
  <2>1. click' \in [Clicks -> ClickRecords]
    BY <1>8, ListsFacts, ClickSet
  <2> QED
    BY <1>0, <1>8, <1>a, <2>1 DEF RecipeDeleted
<1>9. ASSUME NEW c \in Clicks, ListsFetched(c)
      PROVE  EditorTypeOK'
  <2>1. click' \in [Clicks -> ClickRecords]
    BY <1>0, <1>9, NoClickFacts DEF ListsFetched
  <2> QED
    BY <1>0, <1>9, <1>a, <2>1 DEF ListsFetched, RecipeIds
<1>10. ASSUME NEW c \in Clicks, ClickFails(c)
       PROVE  EditorTypeOK'
  <2>1. click' \in [Clicks -> ClickRecords] /\ deletable' \in BOOLEAN
    BY <1>0, <1>10, NoClickFacts DEF ClickFails, Fails
  <2> QED
    BY <1>0, <1>10, <1>a, <2>1 DEF ClickFails
<1> QED
  BY <1>1, <1>2, <1>3, <1>4, <1>5, <1>6, <1>7, <1>8, <1>9, <1>10
  DEF EditorNext

\* The editor keeps its types.
THEOREM EditorTypes == EditorSpec => []EditorTypeOK
<1>1. EditorInit => EditorTypeOK
  <2> SUFFICES ASSUME EditorInit
               PROVE  EditorTypeOK
    OBVIOUS
  <2>1. click \in [Clicks -> ClickRecords]
    BY NoClickFacts DEF EditorInit
  <2>2. nGets \in 0 .. MaxGets /\ gets = {}
    BY RecipeEditorAssumption DEF EditorInit
  <2> QED
    BY <2>1, <2>2 DEF EditorInit, EditorTypeOK, Known, ClickRecords, RecipeIds
<1>2. EditorTypeOK /\ [EditorNext]_editorVars => EditorTypeOK'
  <2>1. UNCHANGED editorVars /\ EditorTypeOK => EditorTypeOK'
    BY DEF editorVars, EditorTypeOK
  <2>2. EditorTypeOK /\ EditorNext => EditorTypeOK'
    BY EditorNextTyped
  <2> QED
    BY <2>1, <2>2
<1> QED
  BY <1>1, <1>2, PTL DEF EditorSpec

\* A step keeps the draft of the recipe on screen, unless answers crossed.
LEMMA DraftKept ==
  ASSUME EditorTypeOK, DraftInv, EditorNext
  PROVE  DraftInv'
<1> DEFINE Alone == /\ draft = form
                    /\ \A c, k \in Clicks :
                         click[c] # NoClick /\ click[k] # NoClick => c = k
                    /\ \A c \in Clicks :
                         /\ click[c].at \in {"token", "sent"} =>
                              click[c].shown = form
                         /\ click[c].at = "sent" => click[c].id = form
<1> SUFFICES ASSUME ~crossed'
             PROVE  Alone'
  BY DEF DraftInv
<1>0. ~crossed => Alone
  BY DEF DraftInv
<1>a. NoClick.at = "none"
  BY NoClickFacts
<1> HIDE DEF Alone
\* The form of a recipe comes on screen while nothing is under way.
<1>b. ASSUME NEW r, Render(r, r), click' = click
      PROVE  Alone'
  <2>1. \A c \in Clicks : click[c] = NoClick
    BY <1>b DEF Render, BusyEditor
  <2> QED
    BY <1>a, <1>b, <2>1 DEF Render, Alone
\* A click that is the only one ends.
<1>c. ASSUME NEW c \in Clicks, click' = [click EXCEPT ![c] = NoClick], Alone
      PROVE  /\ \A k, g \in Clicks :
                  click'[k] # NoClick /\ click'[g] # NoClick => k = g
             /\ \A k \in Clicks :
                  click[c] # NoClick => click'[k].at = "none"
             /\ \A k \in Clicks :
                  click'[k].at # "none" => click'[k] = click[k]
  BY <1>a, <1>c, NoClickFacts, ClickSet DEF Alone
<1>1. ASSUME NEW r \in Saved \cup onServer, OpenRow(r)
      PROVE  Alone'
  BY <1>0, <1>1 DEF OpenRow, Alone
<1>2. ASSUME NEW g \in gets, RowAnswered(g)
      PROVE  Alone'
  BY <1>0, <1>2, <1>b DEF RowAnswered, HasRecipe, Alone
<1>3. CASE NewRecipe
  BY <1>3, <1>b DEF NewRecipe
<1>4. CASE TokenLost
  BY <1>0, <1>4 DEF TokenLost, Alone
<1>5. ASSUME NEW c \in Clicks, ClickSave(c) \/ ClickDelete(c)
      PROVE  Alone'
  <2>1. PICK does \in {"save", "delete"} : ClickOn(c, does)
    BY <1>5 DEF ClickSave, ClickDelete
  <2>2. /\ ~crossed /\ ~BusyEditor /\ UNCHANGED <<draft, form>>
    BY <2>1, ClickOnFacts
  <2>3. PICK r \in ClickRecords :
          /\ click' = [click EXCEPT ![c] = r] /\ r.shown = form
          /\ (r.at = "sent" => r.id = draft)
    BY <2>1, ClickOnFacts
  <2>4. click'[c] = r /\ \A k \in Clicks : k # c => click'[k] = click[k]
    BY <2>3, ClickSet
  <2>5. \A k \in Clicks : click[k] = NoClick
    BY <2>2 DEF BusyEditor
  <2> QED
    BY <1>0, <1>a, <2>2, <2>3, <2>4, <2>5 DEF Alone
<1>6. ASSUME NEW c \in Clicks, GoesOn(c)
      PROVE  Alone'
  <2>1. /\ Alone /\ UNCHANGED <<draft, form>> /\ click[c].at = "token"
    BY <1>0, <1>6 DEF GoesOn
  <2>2. CASE draft = NoDraft
    BY <1>6, <1>c, <2>1, <2>2 DEF GoesOn, Fails, Alone
  <2>3. CASE draft # NoDraft
    <3>1. PICK r \in ClickRecords :
            /\ click' = [click EXCEPT ![c] = r] /\ r.shown = click[c].shown
            /\ r.at = "sent" /\ r.id = draft
      BY <1>6, <2>3, SendsFacts DEF GoesOn
    <3>2. click'[c] = r /\ \A k \in Clicks : k # c => click'[k] = click[k]
      BY <3>1, ClickSet
    <3>3. click[c] # NoClick
      BY <1>a, <2>1
    <3> QED
      BY <2>1, <3>1, <3>2, <3>3 DEF Alone
  <2> QED
    BY <2>2, <2>3
<1>7. ASSUME NEW c \in Clicks, RecipeSaved(c)
      PROVE  Alone'
  <2>1. /\ Alone /\ click' = [click EXCEPT ![c] = NoClick]
        /\ click[c].at = "sent"
    BY <1>0, <1>7 DEF RecipeSaved
  <2>2. click[c] # NoClick /\ click[c].id = form
    BY <1>a, <2>1 DEF Alone
  <2>3. draft' = form'
    BY <1>7, <2>2 DEF RecipeSaved
  <2> QED
    BY <1>c, <2>1, <2>2, <2>3 DEF Alone
<1>8. ASSUME NEW c \in Clicks, RecipeDeleted(c)
      PROVE  Alone'
  <2>1. PICK r \in ClickRecords :
          click' = [click EXCEPT ![c] = r] /\ r.at = "lists"
    BY <1>8, ListsFacts
  <2>2. click'[c] = r /\ \A k \in Clicks : k # c => click'[k] = click[k]
    BY <2>1, ClickSet
  <2>3. Alone /\ click[c] # NoClick /\ UNCHANGED <<draft, form>>
    BY <1>0, <1>8, ListsFacts DEF RecipeDeleted
  <2> QED
    BY <2>1, <2>2, <2>3 DEF Alone
<1>9. ASSUME NEW c \in Clicks, ListsFetched(c)
      PROVE  Alone'
  <2>1. /\ Alone /\ click' = [click EXCEPT ![c] = NoClick]
        /\ click[c].at = "lists" /\ draft' = form'
    BY <1>0, <1>9 DEF ListsFetched
  <2>2. click[c] # NoClick
    BY <1>a, <2>1
  <2> QED
    BY <1>c, <2>1, <2>2 DEF Alone
<1>10. ASSUME NEW c \in Clicks, ClickFails(c)
       PROVE  Alone'
  <2>1. /\ Alone /\ click' = [click EXCEPT ![c] = NoClick]
        /\ click[c] # NoClick /\ UNCHANGED <<draft, form>>
    BY <1>0, <1>10 DEF ClickFails, Fails
  <2> QED
    BY <1>c, <2>1 DEF Alone
<1> QED
  BY <1>1, <1>2, <1>3, <1>4, <1>5, <1>6, <1>7, <1>8, <1>9, <1>10
  DEF EditorNext

\* A save or a delete is sent for the recipe whose form was clicked, unless
\* the form was changed in between.
THEOREM SentForWhatIsShownSafe == EditorSpec => []SentForWhatIsShown
<1>1. EditorInit => DraftInv
  BY NoClickFacts DEF EditorInit, DraftInv
<1>2. EditorTypeOK /\ DraftInv /\ [EditorNext]_editorVars => DraftInv'
  <2>1. UNCHANGED editorVars /\ DraftInv => DraftInv'
    BY DEF editorVars, DraftInv
  <2>2. EditorTypeOK /\ DraftInv /\ EditorNext => DraftInv'
    BY DraftKept
  <2> QED
    BY <2>1, <2>2
<1>3. DraftInv => SentForWhatIsShown
  BY DEF DraftInv, SentForWhatIsShown
<1> QED
  BY <1>1, <1>2, <1>3, EditorTypes, PTL DEF EditorSpec

-----------------------------------------------------------------------------
(* The list of contacts *)

\* What a load of the list may be.
LoadRecords == [n : 1 .. nLoads, filter : Filters,
                at : {"asked", "read", "orgs"}, version : 0 .. MaxChanges]

\* The version is that of the server, or the answer to a change is on its way.
Told(v) == v = version \/ \E d \in Dialogs : dialog[d] = "done"

\* Loads are told apart by their numbers.
OwnNumbers == \A l, k \in loads : l.n = k.n => l = k

\* The last load is for what the page is set to; it is under way, or the page
\* holds what it brought, and shows it unless the load goes on.
LastLoadInv ==
  ~misordered /\ ~unseen =>
    /\ \A l \in loads :
         l.n = nLoads => /\ l.filter = filter
                         /\ l.at = "asked" \/ Told(l.version)
                         /\ l.at = "orgs" => newestIn = nLoads
    /\ newestIn < nLoads => \E l \in loads : l.n = nLoads
    /\ newestIn = nLoads =>
         /\ rows.filter = filter /\ Told(rows.version)
         /\ painted = rows \/ \E l \in loads : l.n = nLoads

\* A list is loaded.
LEMMA LoadFacts ==
  ASSUME ContactsTypeOK, NEW f \in Filters, Load(f)
  PROVE  /\ nLoads' = nLoads + 1 /\ nLoads' \in 0 .. MaxLoads
         /\ newestIn \in 0 .. nLoads' /\ newestIn < nLoads'
         /\ loads' \subseteq LoadRecords'
         /\ \A l \in loads : l.n # nLoads'
         /\ \E new : /\ loads' = loads \cup {new}
                     /\ new.n = nLoads' /\ new.filter = f /\ new.at = "asked"
<1> DEFINE new == [n |-> nLoads + 1, filter |-> f, at |-> "asked",
                   version |-> 0]
<1>1. /\ nLoads \in 0 .. MaxLoads /\ newestIn \in 0 .. nLoads
      /\ MaxLoads \in Nat /\ MaxChanges \in Nat
      /\ loads \subseteq LoadRecords
  BY ContactsAssumption DEF ContactsTypeOK, LoadRecords
<1>2. /\ nLoads' = nLoads + 1 /\ nLoads' \in 0 .. MaxLoads
      /\ newestIn \in 0 .. nLoads' /\ newestIn < nLoads'
      /\ loads' = loads \cup {new}
  BY <1>1 DEF Load
<1>3. new \in LoadRecords'
  BY <1>1, <1>2 DEF LoadRecords
<1>4. loads \subseteq LoadRecords'
  BY <1>1, <1>2 DEF LoadRecords
<1>5. \A l \in loads : l.n # nLoads'
  BY <1>1, <1>2 DEF LoadRecords
<1>6. new.n = nLoads' /\ new.filter = f /\ new.at = "asked"
  BY <1>2
<1> HIDE DEF new
<1>7. loads' \subseteq LoadRecords'
  BY <1>2, <1>3, <1>4
<1> QED
  BY <1>2, <1>5, <1>6, <1>7

\* A load gets further.
LEMMA MovedFacts ==
  ASSUME ContactsTypeOK, OwnNumbers, NEW l \in loads,
         NEW m \in LoadRecords, m.n = l.n,
         loads' = (loads \ {l}) \cup {m}, nLoads' = nLoads
  PROVE  /\ loads' \subseteq LoadRecords' /\ OwnNumbers'
         /\ \A k \in loads' : k.n # l.n => k \in loads
         /\ \A k \in loads' : k.n = l.n => k = m
         /\ m \in loads' /\ \A k \in loads : k.n # l.n => k \in loads'
<1>1. loads \subseteq LoadRecords /\ LoadRecords' = LoadRecords
  BY DEF ContactsTypeOK, LoadRecords
<1> QED
  BY <1>1 DEF OwnNumbers

\* The fields of a load, before and after it goes on.
LEMMA LoadRecordFacts ==
  ASSUME ContactsTypeOK, NEW l \in loads
  PROVE  /\ l \in LoadRecords
         /\ l.n \in 1 .. nLoads /\ l.filter \in Filters
         /\ l.version \in 0 .. MaxChanges
         /\ \A at \in {"asked", "read", "orgs"} :
              /\ [l EXCEPT !.at = at] \in LoadRecords
              /\ [l EXCEPT !.at = at].n = l.n
              /\ [l EXCEPT !.at = at].filter = l.filter
              /\ [l EXCEPT !.at = at].version = l.version
              /\ [l EXCEPT !.at = at].at = at
<1>1. l \in LoadRecords
  BY DEF ContactsTypeOK, LoadRecords
<1>2. /\ l.n \in 1 .. nLoads /\ l.filter \in Filters
      /\ l.version \in 0 .. MaxChanges
  BY <1>1 DEF LoadRecords
<1>3. ASSUME NEW at \in {"asked", "read", "orgs"}
      PROVE  /\ [l EXCEPT !.at = at] \in LoadRecords
             /\ [l EXCEPT !.at = at].n = l.n
             /\ [l EXCEPT !.at = at].filter = l.filter
             /\ [l EXCEPT !.at = at].version = l.version
             /\ [l EXCEPT !.at = at].at = at
  BY <1>1 DEF LoadRecords
<1> QED
  BY <1>1, <1>2, <1>3

\* The server has read the list for a load.
LEMMA ReadsFacts ==
  ASSUME ContactsTypeOK, NEW l \in loads, ServerReads(l)
  PROVE  \E m \in LoadRecords :
           /\ m.n = l.n /\ m.filter = l.filter /\ m.at = "read"
           /\ m.version = version
           /\ loads' = (loads \ {l}) \cup {m}
<1> DEFINE m == [l EXCEPT !.at = "read", !.version = version]
<1>1. l \in LoadRecords /\ version \in 0 .. MaxChanges
  BY LoadRecordFacts DEF ContactsTypeOK
<1>2. m \in LoadRecords
  BY <1>1 DEF LoadRecords
<1>3. /\ m.n = l.n /\ m.filter = l.filter /\ m.at = "read"
      /\ m.version = version
  BY <1>1 DEF LoadRecords
<1>4. loads' = (loads \ {l}) \cup {m}
  BY DEF ServerReads
<1> HIDE DEF m
<1> QED
  BY <1>2, <1>3, <1>4

\* The types of the page and what tells its loads apart.
ContactsInv == ContactsTypeOK /\ OwnNumbers

\* A step of the page or of the server keeps both.
LEMMA ContactsNextTyped ==
  ASSUME ContactsTypeOK, OwnNumbers, ContactsNext
  PROVE  ContactsInv'
<1>0. /\ filter \in Filters /\ version \in 0 .. MaxChanges
      /\ rows \in Lists /\ painted \in Lists
      /\ nLoads \in 0 .. MaxLoads /\ newestIn \in 0 .. nLoads
      /\ loads \subseteq LoadRecords
      /\ dialog \in [Dialogs -> {"closed", "open", "sent", "done"}]
      /\ deletes \in [Dialogs -> BOOLEAN] /\ visible \in [Dialogs -> BOOLEAN]
      /\ misordered \in BOOLEAN /\ unseen \in BOOLEAN
      /\ MaxLoads \in Nat /\ MaxChanges \in Nat
  BY ContactsAssumption DEF ContactsTypeOK, LoadRecords
\* The parts of the invariant.
<1>a. ASSUME filter' \in Filters, version' \in 0 .. MaxChanges,
             rows' \in Lists, painted' \in Lists,
             nLoads' \in 0 .. MaxLoads, newestIn' \in 0 .. nLoads',
             loads' \subseteq LoadRecords', OwnNumbers',
             dialog' \in [Dialogs -> {"closed", "open", "sent", "done"}],
             deletes' \in [Dialogs -> BOOLEAN],
             visible' \in [Dialogs -> BOOLEAN],
             misordered' \in BOOLEAN, unseen' \in BOOLEAN
      PROVE  ContactsInv'
  <2>1. Lists' = Lists
    BY DEF Lists
  <2> QED
    BY <1>a, <2>1 DEF ContactsInv, ContactsTypeOK, LoadRecords
<1>b. ASSUME UNCHANGED <<loads, nLoads>>
      PROVE  loads' \subseteq LoadRecords' /\ OwnNumbers'
  BY <1>0, <1>b DEF LoadRecords, OwnNumbers
<1>c. ASSUME NEW f \in Filters, Load(f)
      PROVE  OwnNumbers'
  BY <1>c, LoadFacts DEF OwnNumbers
<1>1. ASSUME NEW f \in Filters, SetFilter(f)
      PROVE  ContactsInv'
  BY <1>0, <1>1, <1>a, <1>c, LoadFacts DEF SetFilter, dialogs
<1>2. ASSUME NEW l \in loads, ServerReads(l)
      PROVE  ContactsInv'
  <2>1. nLoads' = nLoads
    BY <1>2 DEF ServerReads
  <2>2. loads' \subseteq LoadRecords' /\ OwnNumbers'
    BY <1>2, <2>1, ReadsFacts, MovedFacts
  <2> QED
    BY <1>0, <1>2, <1>a, <2>2 DEF ServerReads, dialogs
<1>3. ASSUME NEW l \in loads, ListArrives(l)
      PROVE  ContactsInv'
  <2>1. nLoads' = nLoads /\ newestIn' = l.n /\ l.n \in 0 .. nLoads
    <3>1. l.n \in 1 .. nLoads
      BY LoadRecordFacts
    <3> QED
      BY <1>0, <1>3, <3>1 DEF ListArrives
  <2>2. loads' \subseteq LoadRecords' /\ OwnNumbers'
    <3>1. CASE Moved(l, "orgs")
      BY <2>1, <3>1, LoadRecordFacts, MovedFacts DEF Moved
    <3>2. CASE loads' = loads \ {l}
      BY <1>0, <2>1, <3>2 DEF LoadRecords, OwnNumbers
    <3> QED
      BY <1>3, <3>1, <3>2 DEF ListArrives
  <2>3. rows' \in Lists
    <3>1. [filter |-> l.filter, version |-> l.version] \in Lists
      BY LoadRecordFacts DEF Lists
    <3>2. [filter |-> Broken, version |-> 0] \in Lists
      BY <1>0 DEF Lists
    <3> QED
      BY <1>0, <1>3, <3>1, <3>2 DEF ListArrives
  <2>4. misordered' \in BOOLEAN /\ unseen' \in BOOLEAN
    BY <1>0, <1>3 DEF ListArrives
  <2> QED
    BY <1>0, <1>3, <1>a, <2>1, <2>2, <2>3, <2>4 DEF ListArrives, dialogs
<1>4. ASSUME NEW l \in loads, Painted(l)
      PROVE  ContactsInv'
  <2>1. loads' = loads \ {l} /\ nLoads' = nLoads
    BY <1>4 DEF Painted
  <2>2. loads' \subseteq LoadRecords' /\ OwnNumbers'
    BY <1>0, <2>1 DEF LoadRecords, OwnNumbers
  <2>3. painted' \in Lists /\ unseen' \in BOOLEAN
    BY <1>0, <1>4 DEF Painted
  <2> QED
    BY <1>0, <1>4, <1>a, <2>2, <2>3 DEF Painted, dialogs
<1>5. ASSUME NEW d \in Dialogs, OpenDialog(d) \/ CancelDialog(d) \/ Submit(d)
      PROVE  ContactsInv'
  <2>1. /\ UNCHANGED <<filter, version, rows, painted, loads, nLoads,
                       newestIn, misordered, unseen>>
    BY <1>5 DEF OpenDialog, CancelDialog, Submit
  <2>2. dialog' \in [Dialogs -> {"closed", "open", "sent", "done"}]
    BY <1>0, <1>5 DEF OpenDialog, CancelDialog, Submit
  <2>3. deletes' \in [Dialogs -> BOOLEAN] /\ visible' \in [Dialogs -> BOOLEAN]
    BY <1>0, <1>5 DEF OpenDialog, CancelDialog, Submit
  <2> QED
    BY <1>0, <1>a, <1>b, <2>1, <2>2, <2>3
<1>6. ASSUME NEW d \in Dialogs, ServerChanges(d)
      PROVE  ContactsInv'
  <2>1. version' \in 0 .. MaxChanges
    BY <1>0, <1>6 DEF ServerChanges
  <2>2. dialog' \in [Dialogs -> {"closed", "open", "sent", "done"}]
    BY <1>0, <1>6 DEF ServerChanges
  <2> QED
    BY <1>0, <1>6, <1>a, <1>b, <2>1, <2>2 DEF ServerChanges
<1>7. ASSUME NEW d \in Dialogs, Answered(d)
      PROVE  ContactsInv'
  <2>1. /\ dialog' \in [Dialogs -> {"closed", "open", "sent", "done"}]
        /\ visible' \in [Dialogs -> BOOLEAN]
    BY <1>0, <1>7 DEF Answered, Close
  <2>2. /\ UNCHANGED <<filter, version, rows, painted, deletes, newestIn,
                       misordered>>
        /\ \/ unseen' = TRUE /\ UNCHANGED <<loads, nLoads>>
           \/ Load(filter) /\ UNCHANGED unseen
    BY <1>7 DEF Answered
  <2>3. CASE UNCHANGED <<loads, nLoads>> /\ unseen' = TRUE
    BY <1>0, <1>a, <1>b, <2>1, <2>2, <2>3
  <2>4. CASE Load(filter) /\ UNCHANGED unseen
    BY <1>0, <1>a, <1>c, <2>1, <2>2, <2>4, LoadFacts
  <2> QED
    BY <2>2, <2>3, <2>4
<1>8. ASSUME NEW d \in Dialogs, Refused(d)
      PROVE  ContactsInv'
  <2>1. dialog' \in [Dialogs -> {"closed", "open", "sent", "done"}]
    BY <1>0, <1>8 DEF Refused
  <2>2. unseen' \in BOOLEAN
    BY <1>0, <1>8 DEF Refused
  <2> QED
    BY <1>0, <1>8, <1>a, <1>b, <2>1, <2>2 DEF Refused
<1> QED
  BY <1>1, <1>2, <1>3, <1>4, <1>5, <1>6, <1>7, <1>8 DEF ContactsNext

\* The page keeps its types, and its loads their own numbers.
THEOREM ContactsTypes == ContactsSpec => [](ContactsTypeOK /\ OwnNumbers)
<1>1. ContactsInit => ContactsInv
  <2> SUFFICES ASSUME ContactsInit
               PROVE  ContactsInv
    OBVIOUS
  <2>0. /\ MaxLoads \in Nat \ {0} /\ MaxChanges \in Nat /\ AllRows \in Filters
    BY ContactsAssumption
  <2>1. /\ nLoads = 1 /\ nLoads \in 0 .. MaxLoads /\ newestIn \in 0 .. nLoads
        /\ version \in 0 .. MaxChanges /\ filter \in Filters
    BY <2>0 DEF ContactsInit
  <2>2. [filter |-> Broken, version |-> 0] \in Lists
    BY <2>0 DEF Lists
  <2>3. [n |-> 1, filter |-> AllRows, at |-> "asked", version |-> 0]
          \in LoadRecords
    BY <2>0, <2>1 DEF LoadRecords
  <2>4. loads \subseteq LoadRecords /\ OwnNumbers
    BY <2>3 DEF ContactsInit, OwnNumbers
  <2>5. {rows, painted} \subseteq Lists
    BY <2>2 DEF ContactsInit
  <2>6. /\ dialog \in [Dialogs -> {"closed", "open", "sent", "done"}]
        /\ {deletes, visible} \subseteq [Dialogs -> BOOLEAN]
        /\ {misordered, unseen} \subseteq BOOLEAN
    BY DEF ContactsInit
  <2> QED
    BY <2>1, <2>4, <2>5, <2>6 DEF ContactsInv, ContactsTypeOK, LoadRecords
<1>2. ContactsInv /\ [ContactsNext]_contactsVars => ContactsInv'
  <2>1. UNCHANGED contactsVars /\ ContactsInv => ContactsInv'
    BY DEF contactsVars, ContactsInv, ContactsTypeOK, OwnNumbers, Lists
  <2>2. ContactsInv /\ ContactsNext => ContactsInv'
    BY ContactsNextTyped DEF ContactsInv
  <2> QED
    BY <2>1, <2>2
<1>3. ContactsInv <=> ContactsTypeOK /\ OwnNumbers
  BY DEF ContactsInv
<1> QED
  BY <1>1, <1>2, <1>3, PTL DEF ContactsSpec

\* A step keeps the last load the one that tells of the latest change.
LEMMA LastLoadKept ==
  ASSUME ContactsTypeOK, OwnNumbers, LastLoadInv, ContactsNext
  PROVE  LastLoadInv'
<1> DEFINE Calm == /\ \A l \in loads :
                        l.n = nLoads =>
                          /\ l.filter = filter
                          /\ l.at = "asked" \/ Told(l.version)
                          /\ l.at = "orgs" => newestIn = nLoads
                   /\ newestIn < nLoads => \E l \in loads : l.n = nLoads
                   /\ newestIn = nLoads =>
                        /\ rows.filter = filter /\ Told(rows.version)
                        /\ painted = rows \/ \E l \in loads : l.n = nLoads
<1> SUFFICES ASSUME ~misordered', ~unseen'
             PROVE  Calm'
  BY DEF LastLoadInv
<1>0. /\ nLoads \in Nat /\ newestIn \in 0 .. nLoads
      /\ dialog \in [Dialogs -> {"closed", "open", "sent", "done"}]
      /\ filter \in Filters /\ version \in Nat
  BY ContactsAssumption DEF ContactsTypeOK
<1>a. ~misordered /\ ~unseen => Calm
  BY DEF LastLoadInv
<1> HIDE DEF Calm
\* A load starts for what the page is set to.
<1>b. ASSUME NEW f \in Filters, Load(f), filter' = f, newestIn' = newestIn
      PROVE  Calm'
  <2>1. /\ newestIn' < nLoads' /\ nLoads' \in Nat /\ newestIn' \in Nat
        /\ \A l \in loads : l.n # nLoads'
    BY <1>0, <1>b, LoadFacts
  <2>2. PICK new : /\ loads' = loads \cup {new}
                   /\ new.n = nLoads' /\ new.filter = f /\ new.at = "asked"
    BY <1>b, LoadFacts
  <2>3. newestIn' # nLoads'
    BY <2>1
  <2> QED
    BY <1>b, <2>1, <2>2, <2>3 DEF Calm
\* No load starts or gets further, and an answer that was coming still comes.
<1>c. ASSUME Calm, UNCHANGED <<filter, version, rows, painted, loads, nLoads,
                               newestIn>>,
             \A d \in Dialogs : dialog[d] = "done" => dialog'[d] = "done"
      PROVE  Calm'
  <2>1. \A v : Told(v) => Told(v)'
    BY <1>c DEF Told
  <2> QED
    BY <1>c, <2>1 DEF Calm
<1>1. ASSUME NEW f \in Filters, SetFilter(f)
      PROVE  Calm'
  BY <1>1, <1>b DEF SetFilter
<1>2. ASSUME NEW l \in loads, ServerReads(l)
      PROVE  Calm'
  <2>1. /\ UNCHANGED <<filter, version, rows, painted, nLoads, newestIn,
                       misordered, unseen, dialog>>
        /\ l.at = "asked"
    BY <1>2 DEF ServerReads, dialogs
  <2>2. PICK m \in LoadRecords :
          /\ m.n = l.n /\ m.filter = l.filter /\ m.at = "read"
          /\ m.version = version /\ loads' = (loads \ {l}) \cup {m}
    BY <1>2, ReadsFacts
  <2>3. /\ \A k \in loads' : k.n # l.n => k \in loads
        /\ \A k \in loads' : k.n = l.n => k = m
        /\ m \in loads' /\ \A k \in loads : k.n # l.n => k \in loads'
    BY <2>1, <2>2, MovedFacts
  <2>4. Calm /\ Told(version) /\ \A v : Told(v) => Told(v)'
    BY <1>a, <2>1 DEF Told
  <2> QED
    BY <2>1, <2>2, <2>3, <2>4 DEF Calm
<1>3. ASSUME NEW l \in loads, ListArrives(l)
      PROVE  Calm'
  <2>1. /\ ~(misordered \/ l.n < newestIn) /\ ~unseen
        /\ newestIn' = l.n /\ l.at = "read"
        /\ UNCHANGED <<filter, version, painted, nLoads, dialog>>
    <3>1. ~(misordered \/ l.n < newestIn)
      BY <1>3 DEF ListArrives
    <3>2. ~unseen
      BY <1>3 DEF ListArrives
    <3>3. /\ newestIn' = l.n /\ l.at = "read"
          /\ UNCHANGED <<filter, version, painted, nLoads, dialog>>
      BY <1>3 DEF ListArrives, dialogs
    <3> QED
      BY <3>1, <3>2, <3>3
  <2>2. /\ rows' = [filter |-> l.filter, version |-> l.version]
        /\ Moved(l, "orgs")
    BY <1>3 DEF ListArrives
  <2> DEFINE m == [l EXCEPT !.at = "orgs"]
  <2>3. /\ m \in LoadRecords /\ m.n = l.n /\ m.filter = l.filter
        /\ m.version = l.version /\ m.at = "orgs" /\ l.n \in 1 .. nLoads
    BY LoadRecordFacts
  <2>4. loads' = (loads \ {l}) \cup {m}
    BY <2>2 DEF Moved
  <2> HIDE DEF m
  <2>5. /\ \A k \in loads' : k.n # l.n => k \in loads
        /\ \A k \in loads' : k.n = l.n => k = m
        /\ m \in loads' /\ \A k \in loads : k.n # l.n => k \in loads'
    BY <2>1, <2>3, <2>4, MovedFacts
  <2>6. Calm /\ \A v : Told(v) => Told(v)'
    BY <1>a, <2>1 DEF Told
  <2>7. CASE l.n = nLoads
    <3>1. l.filter = filter /\ Told(l.version)
      BY <2>1, <2>6, <2>7 DEF Calm
    <3>2. rows'.filter = filter /\ rows'.version = l.version
      BY <2>2, <3>1
    <3> QED
      BY <1>0, <2>1, <2>3, <2>5, <2>6, <2>7, <3>1, <3>2 DEF Calm
  <2>8. CASE l.n # nLoads
    <3>1. newestIn < nLoads /\ l.n < nLoads
      BY <1>0, <2>1, <2>3, <2>8
    <3>2. PICK k \in loads : k.n = nLoads
      BY <2>6, <3>1 DEF Calm
    <3>3. \A g \in loads : g.n = nLoads => g.at # "orgs"
      BY <1>0, <2>6, <3>1 DEF Calm
    <3> QED
      BY <1>0, <2>1, <2>3, <2>5, <2>6, <2>8, <3>1, <3>2, <3>3 DEF Calm
  <2> QED
    BY <2>7, <2>8
<1>4. ASSUME NEW l \in loads, Painted(l)
      PROVE  Calm'
  <2>1. /\ l.at = "orgs" /\ loads' = loads \ {l} /\ ~unseen /\ ~misordered
        /\ painted' = rows
        /\ UNCHANGED <<filter, version, rows, nLoads, newestIn, dialog>>
    BY <1>4 DEF Painted, dialogs
  <2>2. Calm /\ \A v : Told(v) => Told(v)'
    BY <1>a, <2>1 DEF Told
  <2>3. newestIn < nLoads => l.n # nLoads
    BY <1>0, <2>1, <2>2 DEF Calm
  <2> QED
    BY <2>1, <2>2, <2>3 DEF Calm
<1>5. ASSUME NEW d \in Dialogs, OpenDialog(d) \/ CancelDialog(d) \/ Submit(d)
      PROVE  Calm'
  <2>1. /\ UNCHANGED <<filter, version, rows, painted, loads, nLoads,
                       newestIn, misordered, unseen>>
    BY <1>5 DEF OpenDialog, CancelDialog, Submit
  <2>2. \A g \in Dialogs : dialog[g] = "done" => dialog'[g] = "done"
    BY <1>0, <1>5 DEF OpenDialog, CancelDialog, Submit
  <2> QED
    BY <1>a, <1>c, <2>1, <2>2
<1>6. ASSUME NEW d \in Dialogs, ServerChanges(d)
      PROVE  Calm'
  <2>1. dialog'[d] = "done"
    BY <1>0, <1>6 DEF ServerChanges
  <2>2. \A v : Told(v)'
    BY <2>1 DEF Told
  <2> QED
    BY <1>6, <1>a, <2>2 DEF ServerChanges, Calm
<1>7. ASSUME NEW d \in Dialogs, Answered(d)
      PROVE  Calm'
  BY <1>0, <1>7, <1>b DEF Answered
<1>8. ASSUME NEW d \in Dialogs, Refused(d)
      PROVE  Calm'
  <2>1. /\ UNCHANGED <<filter, version, rows, painted, loads, nLoads,
                       newestIn, misordered>>
        /\ ~unseen /\ ~misordered /\ dialog[d] # "done"
    BY <1>8 DEF Refused
  <2>2. \A g \in Dialogs : dialog[g] = "done" => dialog'[g] = "done"
    BY <1>0, <1>8, <2>1 DEF Refused
  <2> QED
    BY <1>a, <1>c, <2>1, <2>2
<1> QED
  BY <1>1, <1>2, <1>3, <1>4, <1>5, <1>6, <1>7, <1>8 DEF ContactsNext

\* When nothing is under way, what the last load told is current.
LEMMA LastLoadMeansCurrent ==
  ContactsTypeOK /\ LastLoadInv => PaintedIsCurrent
<1> SUFFICES ASSUME ContactsTypeOK, LastLoadInv, loads = {},
                    ~misordered, ~unseen,
                    \A d \in Dialogs : dialog[d] # "done"
             PROVE  painted = [filter |-> filter, version |-> version]
  BY DEF PaintedIsCurrent
<1>1. newestIn = nLoads
  BY ContactsAssumption DEF ContactsTypeOK, LastLoadInv
<1>2. painted = rows /\ rows.filter = filter /\ rows.version = version
  BY <1>1 DEF LastLoadInv, Told
<1>3. rows \in Lists
  BY DEF ContactsTypeOK
<1> QED
  BY <1>2, <1>3 DEF Lists

\* A page that waits for nothing shows the contacts as they are, unless lists
\* came out of order or a change was not told.
THEOREM PaintedIsCurrentSafe == ContactsSpec => []PaintedIsCurrent
<1>1. ContactsInit => LastLoadInv
  <2> SUFFICES ASSUME ContactsInit
               PROVE  LastLoadInv
    OBVIOUS
  <2>1. /\ nLoads = 1 /\ newestIn = 0 /\ filter = AllRows
        /\ loads = {[n |-> 1, filter |-> AllRows, at |-> "asked",
                     version |-> 0]}
    BY DEF ContactsInit
  <2> QED
    BY <2>1 DEF LastLoadInv
<1>2. ContactsTypeOK /\ OwnNumbers /\ LastLoadInv
        /\ [ContactsNext]_contactsVars => LastLoadInv'
  <2> SUFFICES ASSUME ContactsTypeOK, OwnNumbers, LastLoadInv,
                      [ContactsNext]_contactsVars
               PROVE  LastLoadInv'
    OBVIOUS
  <2>1. CASE ContactsNext
    BY <2>1, LastLoadKept
  <2>2. CASE UNCHANGED contactsVars
    BY <2>2 DEF contactsVars, dialogs, LastLoadInv, Told
  <2> QED
    BY <2>1, <2>2
<1> QED
  BY <1>1, <1>2, ContactsTypes, LastLoadMeansCurrent, PTL DEF ContactsSpec

-----------------------------------------------------------------------------
(* The dialogs of an item *)

\* The forms that make an item.
Adds == {"add", "add_with_batch"}

\* What a click on one of the buttons may be.
PressRecords == [form : Forms \cup {NoForm},
                 at : {"none", "posted", "done", "batch", "batched"},
                 item : 1 .. MaxMade \cup {NoItem}]

\* A click is not under way, or it is of a dialog and has made an item if it
\* had to; an item that may still get its opening batch has none.
PressInv ==
  \A p \in Presses :
    /\ press[p] = NoPress \/ (press[p].at # "none" /\ press[p].form \in Forms)
    /\ press[p].at = "posted" => press[p].item = NoItem
    /\ press[p].at = "done" /\ formKind[press[p].form] \in Adds =>
         press[p].item # NoItem
    /\ press[p].at \in {"batch", "batched"} => press[p].item # NoItem
    /\ press[p].item # NoItem => press[p].item \in 1 .. made
    /\ press[p].item # NoItem /\ press[p].at # "batched" =>
         openings[press[p].item] = 0

\* No two clicks have made one item.
OwnItems ==
  \A p, q \in Presses :
    p # q /\ press[p].item = press[q].item => press[p].item = NoItem

\* An item that has not been made has no opening batch.
FreshItems == \A i \in 1 .. MaxMade : i > made => openings[i] = 0

\* A dialog that makes items has made no more than there are.
EffectsCounted ==
  \A f \in Forms : formKind[f] \in Adds => effects[f] \in 0 .. made

\* The clicks, the items they made and their batches fit together.
ItemsInv == PressInv /\ OwnItems /\ FreshItems /\ EffectsCounted

\* A dialog that was neither hurried nor troubled has one click under way at
\* most, and has had no effect as long as that click, or another one, may
\* still have one.
OnceInv ==
  \A f \in Forms :
    ~hurried[f] /\ ~troubled[f] =>
      /\ effects[f] \in 0 .. 1
      /\ \A p, q \in Presses : press[p].form = f /\ press[q].form = f => p = q
      /\ \A p \in Presses :
           press[p].form = f /\ press[p].at = "posted" => effects[f] = 0
      /\ open[f] /\ (\A p \in Presses : press[p].form # f) => effects[f] = 0

\* The fields of no click.
LEMMA NoPressFacts ==
  /\ NoPress \in PressRecords /\ NoPress.at = "none"
  /\ NoPress.form = NoForm /\ NoPress.item = NoItem
BY DEF NoPress, PressRecords

\* The fields of a click.
LEMMA PressFacts ==
  ASSUME DialogsTypeOK, NEW p \in Presses
  PROVE  /\ press \in [Presses -> PressRecords]
         /\ press[p] \in PressRecords
         /\ press[p].form \in Forms \cup {NoForm}
         /\ press[p].item \in 1 .. MaxMade \cup {NoItem}
         /\ press[p].at \in {"none", "posted", "done", "batch", "batched"}
<1>1. press \in [Presses -> PressRecords]
  BY DEF DialogsTypeOK, PressRecords
<1>2. press[p] \in PressRecords
  BY <1>1
<1> QED
  BY <1>1, <1>2 DEF PressRecords

\* A click gets further, or has made an item.
LEMMA PressMoves ==
  ASSUME DialogsTypeOK, NEW p \in Presses, NEW at
  PROVE  [press EXCEPT ![p].at = at] =
           [press EXCEPT ![p] = [form |-> press[p].form, at |-> at,
                                 item |-> press[p].item]]
<1>1. press \in [Presses -> PressRecords] /\ press[p] \in PressRecords
  BY PressFacts
<1>2. [press[p] EXCEPT !.at = at] =
        [form |-> press[p].form, at |-> at, item |-> press[p].item]
  BY <1>1 DEF PressRecords
<1>3. [press EXCEPT ![p].at = at] =
        [press EXCEPT ![p] = [press[p] EXCEPT !.at = at]]
  BY <1>1
<1> QED
  BY <1>2, <1>3

\* One click moves on, the others stay.
LEMMA PressSet ==
  ASSUME DialogsTypeOK, NEW p \in Presses, NEW r \in PressRecords,
         press' = [press EXCEPT ![p] = r]
  PROVE  /\ press' \in [Presses -> PressRecords]
         /\ press'[p] = r
         /\ \A q \in Presses : q # p => press'[q] = press[q]
BY PressFacts

\* The server's part of a click, and what it makes.
LEMMA PostsFacts ==
  ASSUME DialogsTypeOK, ItemsInv, NEW p \in Presses, ServerPosts(p)
  PROVE  /\ press[p].form \in Forms /\ press[p].at = "posted"
         /\ press[p].item = NoItem
         /\ UNCHANGED <<formKind, open, openings, hurried, troubled>>
         /\ effects' \in [Forms -> 0 .. MaxMade]
         /\ made' \in 0 .. MaxMade
         /\ \E i \in 1 .. MaxMade \cup {NoItem} :
              /\ press' = [press EXCEPT ![p] = [form |-> press[p].form,
                                                at |-> "done", item |-> i]]
              /\ i # NoItem => i = made + 1
              /\ made' = IF i = NoItem THEN made ELSE made + 1
              /\ formKind[press[p].form] \in Adds => i # NoItem
         /\ \A f \in Forms : f # press[p].form => effects'[f] = effects[f]
         /\ effects'[press[p].form] \in
              {effects[press[p].form], effects[press[p].form] + 1}
<1> DEFINE f == press[p].form
<1>0. /\ MaxMade \in Nat /\ made \in 0 .. MaxMade
      /\ effects \in [Forms -> 0 .. MaxMade]
  BY ItemDialogsAssumption DEF DialogsTypeOK
<1>1. press[p].at = "posted"
  BY DEF ServerPosts
<1>2. press[p] # NoPress
  BY <1>1, NoPressFacts
<1>3. f \in Forms /\ press[p].item = NoItem
  BY <1>1, <1>2 DEF ItemsInv, PressInv
<1>4. /\ press \in [Presses -> PressRecords] /\ press[p] \in PressRecords
      /\ press[p] = [form |-> f, at |-> "posted", item |-> NoItem]
  BY <1>1, <1>3, PressFacts DEF PressRecords
<1>5. UNCHANGED <<formKind, open, openings, hurried, troubled>>
  BY DEF ServerPosts
<1>6. CASE formKind[f] \in Adds
  <2>1. /\ made < MaxMade /\ made' = made + 1
        /\ press' = [press EXCEPT ![p] = [form |-> f, at |-> "done",
                                          item |-> made + 1]]
        /\ effects' = [effects EXCEPT ![f] = @ + 1]
    BY <1>6 DEF ServerPosts, Adds
  <2>2. press' = [press EXCEPT ![p] = [form |-> f, at |-> "done",
                                       item |-> made + 1]]
    BY <2>1
  <2>3. effects[f] < MaxMade
    BY <1>0, <1>3, <1>6, <2>1 DEF ItemsInv, EffectsCounted
  <2>4. /\ effects' \in [Forms -> 0 .. MaxMade]
        /\ effects'[f] = effects[f] + 1
        /\ \A g \in Forms : g # f => effects'[g] = effects[g]
    BY <1>0, <1>3, <2>1, <2>3
  <2> DEFINE i == made + 1
  <2>5. /\ i \in 1 .. MaxMade /\ made' = i /\ made' \in 0 .. MaxMade
        /\ i # NoItem
    BY <1>0, <2>1, ItemDialogsAssumption
  <2>6. press' = [press EXCEPT ![p] = [form |-> press[p].form,
                                      at |-> "done", item |-> i]]
    BY <2>2
  <2> HIDE DEF i
  <2>8. i # NoItem => i = made + 1
    BY DEF i
  <2>7. \E j \in 1 .. MaxMade \cup {NoItem} :
              /\ press' = [press EXCEPT ![p] = [form |-> press[p].form,
                                                at |-> "done", item |-> j]]
              /\ j # NoItem => j = made + 1
              /\ made' = IF j = NoItem THEN made ELSE made + 1
              /\ formKind[press[p].form] \in Adds => j # NoItem
    BY <2>5, <2>6, <2>8
  <2> QED
    BY <1>1, <1>3, <1>5, <2>4, <2>5, <2>7
<1>7. CASE formKind[f] \notin Adds
  <2>1. /\ press' = [press EXCEPT ![p].at = "done"] /\ made' = made
        /\ \/ effects' = effects
           \/ effects[f] < MaxMade /\ effects' = [effects EXCEPT ![f] = @ + 1]
    BY <1>7 DEF ServerPosts, Adds
  <2>2. press' = [press EXCEPT ![p] = [form |-> f, at |-> "done",
                                       item |-> NoItem]]
    BY <1>3, <2>1, PressMoves
  <2>4. /\ effects' \in [Forms -> 0 .. MaxMade]
        /\ effects'[f] \in {effects[f], effects[f] + 1}
        /\ \A g \in Forms : g # f => effects'[g] = effects[g]
    BY <1>0, <1>3, <2>1
  <2> QED
    BY <1>0, <1>1, <1>3, <1>5, <1>7, <2>1, <2>2, <2>4
<1> QED
  BY <1>6, <1>7

\* A click whose item is not made by this step moves on.
LEMMA ItemsKept ==
  ASSUME DialogsTypeOK, ItemsInv, NEW p \in Presses, NEW r \in PressRecords,
         press' = [press EXCEPT ![p] = r],
         UNCHANGED <<formKind, effects, made, openings>>,
         r.item \in {press[p].item, NoItem},
         r = NoPress \/ (r.at # "none" /\ r.form \in Forms),
         r.at = "posted" => r.item = NoItem,
         r.at = "done" /\ formKind[r.form] \in Adds => r.item # NoItem,
         r.at \in {"batch", "batched"} => r.item # NoItem,
         r.item # NoItem => r.at # "batched" /\ press[p].at # "batched"
  PROVE  ItemsInv'
<1>1. press'[p] = r /\ \A q \in Presses : q # p => press'[q] = press[q]
  BY PressSet
<1>2. PressInv'
  <2> SUFFICES ASSUME NEW q \in Presses
               PROVE  PressInv!(q)'
    BY DEF PressInv
  <2>1. CASE q = p
    BY <1>1, <2>1 DEF ItemsInv, PressInv, NoPress
  <2>2. CASE q # p
    BY <1>1, <2>2 DEF ItemsInv, PressInv, NoPress
  <2> QED
    BY <2>1, <2>2
<1>3. OwnItems'
  BY <1>1 DEF ItemsInv, OwnItems
<1>4. FreshItems' /\ EffectsCounted'
  BY DEF ItemsInv, FreshItems, EffectsCounted
<1> QED
  BY <1>2, <1>3, <1>4 DEF ItemsInv

\* The types of the dialogs and what ties their parts.
DialogsInv == DialogsTypeOK /\ ItemsInv

\* A step of the page or of the server keeps both.
LEMMA DialogsNextKept ==
  ASSUME DialogsTypeOK, ItemsInv, DialogsNext
  PROVE  DialogsInv'
<1>0. /\ MaxMade \in Nat /\ made \in 0 .. MaxMade
      /\ effects \in [Forms -> 0 .. MaxMade]
      /\ formKind \in [Forms -> FormKinds]
      /\ open \in [Forms -> BOOLEAN] /\ hurried \in [Forms -> BOOLEAN]
      /\ troubled \in [Forms -> BOOLEAN]
      /\ openings \in [1 .. MaxMade -> 0 .. 1]
      /\ NoForm \notin Forms /\ NoItem \notin 1 .. MaxMade
  BY ItemDialogsAssumption DEF DialogsTypeOK
<1>1. ASSUME NEW f \in Forms, CloseForm(f)
      PROVE  DialogsInv'
  <2>1. open' \in [Forms -> BOOLEAN]
    BY <1>0, <1>1 DEF CloseForm
  <2> QED
    BY <1>1, <2>1 DEF CloseForm, DialogsInv, DialogsTypeOK, ItemsInv,
                      PressInv, OwnItems, FreshItems, EffectsCounted
<1>2. ASSUME NEW f \in Forms, NEW k \in FormKinds, OpenForm(f, k)
      PROVE  DialogsInv'
  <2>1. /\ formKind' = [formKind EXCEPT ![f] = k]
        /\ open' = [open EXCEPT ![f] = TRUE]
        /\ effects' = [effects EXCEPT ![f] = 0]
        /\ hurried' = [hurried EXCEPT ![f] = FALSE]
        /\ troubled' = [troubled EXCEPT ![f] = FALSE]
        /\ UNCHANGED <<press, made, openings>>
        /\ \A p \in Presses : press[p].form # f
    BY <1>2 DEF OpenForm
  <2>2. DialogsTypeOK'
    BY <1>0, <2>1 DEF DialogsTypeOK
  <2>3. \A p \in Presses :
          press[p].form \in Forms =>
            formKind'[press[p].form] = formKind[press[p].form]
    BY <1>0, <2>1
  <2>4. PressInv'
    <3> SUFFICES ASSUME NEW p \in Presses
                 PROVE  PressInv!(p)'
      BY DEF PressInv
    <3>1. press[p].at = "done" => press[p].form \in Forms
      BY NoPressFacts DEF ItemsInv, PressInv
    <3> QED
      BY <2>1, <2>3, <3>1 DEF ItemsInv, PressInv, NoPress
  <2>5. OwnItems' /\ FreshItems'
    BY <2>1 DEF ItemsInv, OwnItems, FreshItems
  <2>6. EffectsCounted'
    BY <1>0, <2>1 DEF ItemsInv, EffectsCounted
  <2> QED
    BY <2>2, <2>4, <2>5, <2>6 DEF DialogsInv, ItemsInv
<1>3. ASSUME NEW p \in Presses, NEW f \in Forms, Press(p, f)
      PROVE  DialogsInv'
  <2> DEFINE r == [form |-> f, at |-> "posted", item |-> NoItem]
  <2>1. r \in PressRecords /\ press' = [press EXCEPT ![p] = r]
    BY <1>3 DEF Press, PressRecords
  <2>2. press' \in [Presses -> PressRecords]
    BY <2>1, PressSet
  <2>3. hurried' \in [Forms -> BOOLEAN]
    BY <1>0, <1>3 DEF Press
  <2>4. DialogsTypeOK'
    BY <1>3, <2>2, <2>3 DEF Press, DialogsTypeOK, PressRecords
  <2>5. ItemsInv'
    BY <1>3, <2>1, ItemsKept DEF Press
  <2> QED
    BY <2>4, <2>5 DEF DialogsInv
<1>4. ASSUME NEW p \in Presses, ServerPosts(p)
      PROVE  DialogsInv'
  <2>1. /\ press[p].form \in Forms /\ press[p].at = "posted"
        /\ press[p].item = NoItem
        /\ UNCHANGED <<formKind, open, openings, hurried, troubled>>
        /\ effects' \in [Forms -> 0 .. MaxMade]
        /\ made' \in 0 .. MaxMade
    BY <1>4, PostsFacts
  <2>2. PICK i \in 1 .. MaxMade \cup {NoItem} :
          /\ press' = [press EXCEPT ![p] = [form |-> press[p].form,
                                            at |-> "done", item |-> i]]
          /\ i # NoItem => i = made + 1
          /\ made' = IF i = NoItem THEN made ELSE made + 1
          /\ formKind[press[p].form] \in Adds => i # NoItem
    BY <1>4, PostsFacts
  <2> DEFINE r == [form |-> press[p].form, at |-> "done", item |-> i]
  <2>3. r \in PressRecords
    BY <2>1 DEF PressRecords
  <2>4. /\ press' \in [Presses -> PressRecords] /\ press'[p] = r
        /\ \A q \in Presses : q # p => press'[q] = press[q]
    BY <2>2, <2>3, PressSet
  <2>5. DialogsTypeOK'
    BY <1>0, <2>1, <2>4 DEF DialogsTypeOK, PressRecords
  <2>6. \A q \in Presses : press[q].item # NoItem => press[q].item # i
    BY <1>0, <2>2 DEF ItemsInv, PressInv
  <2>7. PressInv'
    <3> SUFFICES ASSUME NEW q \in Presses
                 PROVE  PressInv!(q)'
      BY DEF PressInv
    <3>1. CASE q = p
      <4>1. i # NoItem => i \in 1 .. made' /\ openings[i] = 0
        BY <1>0, <2>2 DEF ItemsInv, FreshItems
      <4> QED
        BY <2>1, <2>2, <2>4, <3>1, <4>1
    <3>2. CASE q # p
      <4>1. press[q].item # NoItem => press[q].item \in 1 .. made'
        BY <1>0, <2>2 DEF ItemsInv, PressInv
      <4> QED
        BY <2>1, <2>4, <3>2, <4>1 DEF ItemsInv, PressInv, NoPress
    <3> QED
      BY <3>1, <3>2
  <2>8. OwnItems'
    BY <2>4, <2>6 DEF ItemsInv, OwnItems
  <2>9. FreshItems'
    BY <1>0, <2>1, <2>2 DEF ItemsInv, FreshItems
  <2>10. EffectsCounted'
    <3> SUFFICES ASSUME NEW g \in Forms, formKind[g] \in Adds
                 PROVE  effects'[g] \in 0 .. made'
      BY <2>1 DEF EffectsCounted
    <3>1. effects[g] \in 0 .. made
      BY DEF ItemsInv, EffectsCounted
    <3>2. CASE g = press[p].form
      BY <1>0, <1>4, <2>2, <3>1, <3>2, PostsFacts
    <3>3. CASE g # press[p].form
      <4>1. effects'[g] = effects[g]
        BY <1>4, <3>3, PostsFacts
      <4> QED
        BY <1>0, <2>2, <3>1, <4>1
    <3> QED
      BY <3>2, <3>3
  <2> QED
    BY <2>5, <2>7, <2>8, <2>9, <2>10 DEF DialogsInv, ItemsInv
<1>5. ASSUME NEW p \in Presses, AsksForBatch(p)
      PROVE  DialogsInv'
  <2> DEFINE r == [form |-> press[p].form, at |-> "batch",
                   item |-> press[p].item]
  <2>1. /\ press[p].at = "done" /\ formKind[press[p].form] \in Adds
        /\ UNCHANGED <<formKind, open, effects, made, openings, hurried,
                       troubled>>
    BY <1>5 DEF AsksForBatch, Adds
  <2>2. /\ press[p].form \in Forms /\ press[p].item # NoItem
    BY <2>1, NoPressFacts DEF ItemsInv, PressInv
  <2>3. r \in PressRecords /\ press' = [press EXCEPT ![p] = r]
    <3>1. press' = [press EXCEPT ![p].at = "batch"]
      BY <1>5 DEF AsksForBatch
    <3>2. r \in PressRecords
      BY <2>2, PressFacts DEF PressRecords
    <3> QED
      BY <3>1, <3>2, PressMoves
  <2>4. press' \in [Presses -> PressRecords]
    BY <2>3, PressSet
  <2>5. DialogsTypeOK'
    BY <2>1, <2>4 DEF DialogsTypeOK, PressRecords
  <2>6. ItemsInv'
    BY <2>1, <2>2, <2>3, ItemsKept
  <2> QED
    BY <2>5, <2>6 DEF DialogsInv
<1>6. ASSUME NEW p \in Presses, ServerBatches(p)
      PROVE  DialogsInv'
  <2> DEFINE i == press[p].item
             r == [form |-> press[p].form, at |-> "batched", item |-> i]
  <2>1. /\ press[p].at = "batch"
        /\ openings' = [openings EXCEPT ![i] = @ + 1]
        /\ UNCHANGED <<formKind, open, effects, made, hurried, troubled>>
    BY <1>6 DEF ServerBatches
  <2>2. /\ press[p].form \in Forms /\ i # NoItem /\ i \in 1 .. made
        /\ openings[i] = 0
    BY <2>1, NoPressFacts DEF ItemsInv, PressInv
  <2>3. r \in PressRecords /\ press' = [press EXCEPT ![p] = r]
    <3>1. press' = [press EXCEPT ![p].at = "batched"]
      BY <1>6 DEF ServerBatches
    <3>2. r \in PressRecords
      BY <2>2, PressFacts DEF PressRecords
    <3> QED
      BY <3>1, <3>2, PressMoves
  <2>4. /\ press' \in [Presses -> PressRecords] /\ press'[p] = r
        /\ \A q \in Presses : q # p => press'[q] = press[q]
    BY <2>3, PressSet
  <2>5. i \in 1 .. MaxMade
    BY <1>0, <2>2
  <2>6. /\ openings' \in [1 .. MaxMade -> 0 .. 1]
        /\ \A j \in 1 .. MaxMade : j # i => openings'[j] = openings[j]
    BY <1>0, <2>1, <2>2, <2>5
  <2>7. DialogsTypeOK'
    BY <2>1, <2>4, <2>6 DEF DialogsTypeOK, PressRecords
  <2>8. \A q \in Presses : q # p => press[q].item # i
    BY <2>2 DEF ItemsInv, OwnItems
  <2>9. PressInv'
    <3> SUFFICES ASSUME NEW q \in Presses
                 PROVE  PressInv!(q)'
      BY DEF PressInv
    <3>1. CASE q = p
      BY <2>1, <2>2, <2>4, <3>1
    <3>2. CASE q # p
      <4>1. press[q].item # NoItem =>
              press[q].item \in 1 .. MaxMade /\ press[q].item # i
        BY <2>8, <3>2, PressFacts
      <4> QED
        BY <2>1, <2>4, <2>6, <3>2, <4>1 DEF ItemsInv, PressInv, NoPress
    <3> QED
      BY <3>1, <3>2
  <2>10. OwnItems'
    BY <2>4, <2>8 DEF ItemsInv, OwnItems
  <2>11. FreshItems' /\ EffectsCounted'
    BY <1>0, <2>1, <2>2, <2>6 DEF ItemsInv, FreshItems, EffectsCounted
  <2> QED
    BY <2>7, <2>9, <2>10, <2>11 DEF DialogsInv, ItemsInv
<1>7. ASSUME NEW p \in Presses, Succeeds(p) \/ FailsOpen(p)
      PROVE  DialogsInv'
  <2>1. /\ press' = [press EXCEPT ![p] = NoPress]
        /\ UNCHANGED <<formKind, effects, made, openings, hurried>>
    BY <1>7 DEF Succeeds, FailsOpen
  <2>2. open' \in [Forms -> BOOLEAN] /\ troubled' \in [Forms -> BOOLEAN]
    BY <1>0, <1>7 DEF Succeeds, FailsOpen
  <2>3. press' \in [Presses -> PressRecords]
    BY <2>1, NoPressFacts, PressSet
  <2>4. DialogsTypeOK'
    BY <2>1, <2>2, <2>3 DEF DialogsTypeOK, PressRecords
  <2>5. ItemsInv'
    BY <2>1, NoPressFacts, ItemsKept
  <2> QED
    BY <2>4, <2>5 DEF DialogsInv
<1> QED
  BY <1>1, <1>2, <1>3, <1>4, <1>5, <1>6, <1>7 DEF DialogsNext

\* Clicks and items are well formed, and no two clicks have made one item.
THEOREM DialogsTypes == DialogsSpec => [](DialogsTypeOK /\ ItemsInv)
<1>1. DialogsInit => DialogsInv
  <2> SUFFICES ASSUME DialogsInit
               PROVE  DialogsInv
    OBVIOUS
  <2>1. \A p \in Presses : press[p] = NoPress
    BY DEF DialogsInit
  <2>2. press \in [Presses -> PressRecords]
    BY NoPressFacts DEF DialogsInit
  <2>3. /\ effects \in [Forms -> 0 .. MaxMade] /\ made \in 0 .. MaxMade
        /\ openings \in [1 .. MaxMade -> 0 .. 1]
    BY ItemDialogsAssumption DEF DialogsInit
  <2>4. /\ formKind \in [Forms -> FormKinds]
        /\ {open, hurried, troubled} \subseteq [Forms -> BOOLEAN]
    BY DEF DialogsInit, FormKinds
  <2>5. DialogsTypeOK
    BY <2>2, <2>3, <2>4 DEF DialogsTypeOK, PressRecords
  <2>6. PressInv
    BY <2>1, NoPressFacts DEF PressInv
  <2>7. OwnItems
    BY <2>1, NoPressFacts DEF OwnItems
  <2>8. FreshItems /\ EffectsCounted
    BY DEF DialogsInit, FreshItems, EffectsCounted
  <2> QED
    BY <2>5, <2>6, <2>7, <2>8 DEF DialogsInv, ItemsInv
<1>2. DialogsInv /\ [DialogsNext]_dialogVars => DialogsInv'
  <2> SUFFICES ASSUME DialogsInv, [DialogsNext]_dialogVars
               PROVE  DialogsInv'
    OBVIOUS
  <2>1. CASE DialogsNext
    BY <2>1, DialogsNextKept DEF DialogsInv
  <2>2. CASE UNCHANGED dialogVars
    BY <2>2 DEF dialogVars, DialogsInv, DialogsTypeOK, ItemsInv, PressInv,
                OwnItems, FreshItems, EffectsCounted
  <2> QED
    BY <2>1, <2>2
<1>3. DialogsInv <=> DialogsTypeOK /\ ItemsInv
  BY DEF DialogsInv
<1> QED
  BY <1>1, <1>2, <1>3, PTL DEF DialogsSpec

\* A step keeps a dialog that was neither hurried nor troubled at one effect.
LEMMA OnceKept ==
  ASSUME DialogsTypeOK, ItemsInv, OnceInv, DialogsNext
  PROVE  OnceInv'
<1>0. /\ effects \in [Forms -> 0 .. MaxMade] /\ MaxMade \in Nat
      /\ open \in [Forms -> BOOLEAN] /\ hurried \in [Forms -> BOOLEAN]
      /\ troubled \in [Forms -> BOOLEAN] /\ NoForm \notin Forms
  BY ItemDialogsAssumption DEF DialogsTypeOK
<1> SUFFICES ASSUME NEW f \in Forms, ~hurried'[f], ~troubled'[f]
             PROVE  /\ effects'[f] \in 0 .. 1
                    /\ \A p, q \in Presses :
                         press'[p].form = f /\ press'[q].form = f => p = q
                    /\ \A p \in Presses :
                         press'[p].form = f /\ press'[p].at = "posted" =>
                           effects'[f] = 0
                    /\ open'[f] /\ (\A p \in Presses : press'[p].form # f)
                         => effects'[f] = 0
  BY DEF OnceInv
<1> DEFINE Calm == /\ effects[f] \in 0 .. 1
                   /\ \A p, q \in Presses :
                        press[p].form = f /\ press[q].form = f => p = q
                   /\ \A p \in Presses :
                        press[p].form = f /\ press[p].at = "posted" =>
                          effects[f] = 0
                   /\ open[f] /\ (\A p \in Presses : press[p].form # f)
                        => effects[f] = 0
<1>a. ~hurried[f] /\ ~troubled[f] => Calm
  BY DEF OnceInv
<1> HIDE DEF Calm
<1>1. ASSUME NEW g \in Forms, CloseForm(g)
      PROVE  Calm'
  <2>1. open'[f] => open[f]
    BY <1>0, <1>1 DEF CloseForm
  <2> QED
    BY <1>1, <1>a, <2>1 DEF CloseForm, Calm
<1>2. ASSUME NEW g \in Forms, NEW k \in FormKinds, OpenForm(g, k)
      PROVE  Calm'
  <2>1. CASE g = f
    BY <1>0, <1>2, <2>1 DEF OpenForm, Calm
  <2>2. CASE g # f
    <3>1. /\ effects'[f] = effects[f] /\ open'[f] = open[f]
          /\ hurried'[f] = hurried[f] /\ troubled'[f] = troubled[f]
      BY <1>0, <1>2, <2>2 DEF OpenForm
    <3> QED
      BY <1>2, <1>a, <3>1 DEF OpenForm, Calm
  <2> QED
    BY <2>1, <2>2
<1>3. ASSUME NEW p \in Presses, NEW g \in Forms, Press(p, g)
      PROVE  Calm'
  <2> DEFINE r == [form |-> g, at |-> "posted", item |-> NoItem]
  <2>1. /\ press' = [press EXCEPT ![p] = r] /\ r \in PressRecords
        /\ open[g] /\ press[p] = NoPress
        /\ UNCHANGED <<open, effects, troubled>>
    BY <1>3 DEF Press, PressRecords
  <2>2. press'[p] = r /\ \A q \in Presses : q # p => press'[q] = press[q]
    BY <2>1, PressSet
  <2>3. hurried'[f] = (hurried[f] \/ (g = f /\ \E q \in Presses :
                                                 press[q].form = f))
    BY <1>0, <1>3 DEF Press
  <2>4. Calm
    BY <1>a, <2>1, <2>3
  <2>5. r.form = g /\ r.at = "posted"
    OBVIOUS
  <2>6. press[p].form = NoForm
    BY <2>1, NoPressFacts
  <2> HIDE DEF r
  <2>7. CASE g = f
    <3>1. \A q \in Presses : press[q].form # f
      BY <2>3, <2>7
    <3>2. effects[f] = 0
      BY <2>1, <2>4, <2>7, <3>1 DEF Calm
    <3> QED
      BY <2>1, <2>2, <2>5, <2>7, <3>1, <3>2 DEF Calm
  <2>8. CASE g # f
    BY <1>0, <2>1, <2>2, <2>4, <2>5, <2>6, <2>8 DEF Calm
  <2> QED
    BY <2>7, <2>8
<1>4. ASSUME NEW p \in Presses, ServerPosts(p)
      PROVE  Calm'
  <2>1. PICK i \in 1 .. MaxMade \cup {NoItem} :
          press' = [press EXCEPT ![p] = [form |-> press[p].form,
                                        at |-> "done", item |-> i]]
    BY <1>4, PostsFacts
  <2> DEFINE r == [form |-> press[p].form, at |-> "done", item |-> i]
  <2>2. /\ press[p].form \in Forms /\ press[p].at = "posted"
        /\ UNCHANGED <<open, hurried, troubled>>
        /\ \A g \in Forms : g # press[p].form => effects'[g] = effects[g]
        /\ effects'[press[p].form] \in
             {effects[press[p].form], effects[press[p].form] + 1}
    BY <1>4, PostsFacts
  <2>3. r \in PressRecords /\ r.form = press[p].form /\ r.at = "done"
    BY <2>2 DEF PressRecords
  <2>4. press'[p] = r /\ \A q \in Presses : q # p => press'[q] = press[q]
    BY <2>1, <2>3, PressSet
  <2>5. Calm
    BY <1>a, <2>2
  <2> HIDE DEF r
  <2>6. CASE press[p].form = f
    <3>1. effects[f] = 0 /\ \A q \in Presses : q # p => press[q].form # f
      BY <2>2, <2>5, <2>6 DEF Calm
    <3>2. effects'[f] \in 0 .. 1
      BY <2>2, <2>6, <3>1
    <3> QED
      BY <2>3, <2>4, <2>6, <3>1, <3>2 DEF Calm
  <2>7. CASE press[p].form # f
    <3>1. effects'[f] = effects[f] /\ open' = open
      BY <2>2, <2>7
    <3> QED
      BY <2>3, <2>4, <2>5, <2>7, <3>1 DEF Calm
  <2> QED
    BY <2>6, <2>7
\* The opening batch is no effect of its own.
<1>5. ASSUME NEW p \in Presses, AsksForBatch(p) \/ ServerBatches(p)
      PROVE  Calm'
  <2>1. PICK at \in {"batch", "batched"} : press' = [press EXCEPT ![p].at = at]
    BY <1>5 DEF AsksForBatch, ServerBatches
  <2> DEFINE r == [form |-> press[p].form, at |-> at, item |-> press[p].item]
  <2>2. press' = [press EXCEPT ![p] = r] /\ r \in PressRecords
    BY <2>1, PressFacts, PressMoves DEF PressRecords
  <2>3. press'[p] = r /\ \A q \in Presses : q # p => press'[q] = press[q]
    BY <2>2, PressSet
  <2>4. r.form = press[p].form /\ r.at # "posted"
    OBVIOUS
  <2> HIDE DEF r
  <2>5. UNCHANGED <<open, effects, hurried, troubled>>
    BY <1>5 DEF AsksForBatch, ServerBatches
  <2>6. Calm
    BY <1>a, <2>5
  <2> QED
    BY <2>3, <2>4, <2>5, <2>6 DEF Calm
<1>6. ASSUME NEW p \in Presses, Succeeds(p)
      PROVE  Calm'
  <2>1. /\ press' = [press EXCEPT ![p] = NoPress]
        /\ open' = [open EXCEPT ![press[p].form] = FALSE]
        /\ UNCHANGED <<effects, hurried, troubled>>
    BY <1>6 DEF Succeeds
  <2>2. press'[p] = NoPress /\ \A q \in Presses : q # p => press'[q] = press[q]
    BY <2>1, NoPressFacts, PressSet
  <2>3. Calm
    BY <1>a, <2>1
  <2>4. NoPress.form # f /\ NoPress.at # "posted"
    BY <1>0, NoPressFacts
  <2>5. CASE press[p].form = f
    <3>1. ~open'[f]
      BY <1>0, <2>1, <2>5
    <3> QED
      BY <2>1, <2>2, <2>3, <2>4, <3>1 DEF Calm
  <2>6. CASE press[p].form # f
    <3>1. open'[f] = open[f]
      BY <1>0, <2>1, <2>6
    <3> QED
      BY <2>1, <2>2, <2>3, <2>4, <2>6, <3>1 DEF Calm
  <2> QED
    BY <2>5, <2>6
<1>7. ASSUME NEW p \in Presses, FailsOpen(p)
      PROVE  Calm'
  <2>1. /\ press' = [press EXCEPT ![p] = NoPress]
        /\ troubled' = [troubled EXCEPT ![press[p].form] =
                           @ \/ press[p].at # "posted"]
        /\ UNCHANGED <<open, effects, hurried>>
    BY <1>7 DEF FailsOpen
  <2>2. press'[p] = NoPress /\ \A q \in Presses : q # p => press'[q] = press[q]
    BY <2>1, NoPressFacts, PressSet
  <2>3. troubled'[f] =
          (troubled[f] \/ (press[p].form = f /\ press[p].at # "posted"))
    BY <1>0, <2>1
  <2>4. Calm
    BY <1>a, <2>1, <2>3
  <2>5. NoPress.form # f /\ NoPress.at # "posted"
    BY <1>0, NoPressFacts
  <2>6. CASE press[p].form = f
    <3>1. effects[f] = 0
      BY <2>3, <2>4, <2>6 DEF Calm
    <3> QED
      BY <2>1, <2>2, <2>4, <2>5, <2>6, <3>1 DEF Calm
  <2>7. CASE press[p].form # f
    BY <2>1, <2>2, <2>4, <2>5, <2>7 DEF Calm
  <2> QED
    BY <2>6, <2>7
<1>8. Calm'
  BY <1>1, <1>2, <1>3, <1>4, <1>5, <1>6, <1>7 DEF DialogsNext
<1> QED
  BY <1>8 DEF Calm

\* A dialog makes a second item, or books its movement again, only if it was
\* clicked before an answer or after a failure.
THEOREM TwiceOnlyIfRepeatedSafe == DialogsSpec => []TwiceOnlyIfRepeated
<1>1. DialogsInit => OnceInv
  <2> SUFFICES ASSUME DialogsInit
               PROVE  OnceInv
    OBVIOUS
  <2>1. \A p \in Presses : press[p].form = NoForm
    BY NoPressFacts DEF DialogsInit
  <2> QED
    BY <2>1, ItemDialogsAssumption DEF DialogsInit, OnceInv
<1>2. DialogsTypeOK /\ ItemsInv /\ OnceInv /\ [DialogsNext]_dialogVars
        => OnceInv'
  <2> SUFFICES ASSUME DialogsTypeOK, ItemsInv, OnceInv,
                      [DialogsNext]_dialogVars
               PROVE  OnceInv'
    OBVIOUS
  <2>1. CASE DialogsNext
    BY <2>1, OnceKept
  <2>2. CASE UNCHANGED dialogVars
    BY <2>2 DEF dialogVars, OnceInv
  <2> QED
    BY <2>1, <2>2
<1>3. OnceInv => TwiceOnlyIfRepeated
  BY DEF OnceInv, TwiceOnlyIfRepeated
<1> QED
  BY <1>1, <1>2, <1>3, DialogsTypes, PTL DEF DialogsSpec
-----------------------------------------------------------------------------
(* The page for backup and restore *)

\* A file that was not replaced holds what a preview has said of it.
Holds(path, what) ==
  path \notin rewritten =>
    backups[path] # NoBackup /\ backups[path].what = what

\* What the page remembers and shows, and what is under way, goes back to
\* previews that were shown.
PreviewInv ==
  /\ \A e \in previewed : Holds(e.path, e.what)
  /\ \A k \in Previews : preview[k].at = "read" =>
       Holds(preview[k].path, preview[k].what)
  /\ lastPreviewPath # NoPath /\ ~pathByPill =>
       \E e \in previewed : e.path = lastPreviewPath
  /\ box # Hidden => /\ box \in previewed
                     /\ ~pathByPill => box.path = lastPreviewPath

CommitInv ==
  \A r \in Restores :
    LET c == commits[r]
    IN  /\ c.at = "token" =>
             /\ lastPreviewPath # NoPath
             /\ c.seen # Hidden =>
                  /\ c.seen \in previewed
                  /\ ~pathByPill => c.seen.path = lastPreviewPath
        /\ c.at = "sent" =>
             /\ \E e \in previewed : e.path = c.path
             /\ c.seen # Hidden => c.seen \in previewed /\ c.seen.path = c.path

BackupFile == [what : BackupContents, key : Passwords]
Shown      == [path : BackupPaths, what : BackupContents]
PreviewType ==
  [at : {"idle", "upload", "ask", "read"},
   file : Uploads \cup {NoUpload}, path : BackupPaths \cup {NoPath},
   what : BackupContents \cup {NoUpload}]
CommitType ==
  [at : {"idle", "token", "sent", "blind", "restored", "restored blind"},
   path : BackupPaths \cup {NoPath}, what : BackupContents \cup {NoUpload},
   seen : Shown \cup {Hidden}]

\* A click that waits to read, or has read, has a path.
PathsThere ==
  \A k \in Previews :
    /\ preview[k].at = "upload" => preview[k].file \in Uploads
    /\ preview[k].at = "read" => /\ preview[k].path \in BackupPaths
                                 /\ preview[k].what \in BackupContents

\* What is written to a path keeps the types of the files.
LEMMA TakesPlaceTyped ==
  ASSUME RestorePageTypeOK, NEW p \in BackupPaths, NEW file \in BackupFile,
         TakesPlace(p, file)
  PROVE  /\ backups' \in [BackupPaths -> BackupFile \cup {NoBackup}]
         /\ rewritten' \subseteq BackupPaths /\ rewritten \subseteq rewritten'
         /\ \A path \in BackupPaths : path \notin rewritten'
              /\ backups[path] # NoBackup => backups'[path] = backups[path]
<1>1. backups \in [BackupPaths -> BackupFile \cup {NoBackup}]
  BY DEF RestorePageTypeOK, BackupFile
<1>2. backups' = [backups EXCEPT ![p] = file]
  BY DEF TakesPlace
<1>3. rewritten' = IF backups[p] = NoBackup THEN rewritten
                   ELSE rewritten \cup {p}
  BY DEF TakesPlace
<1>4. rewritten \subseteq BackupPaths
  BY DEF RestorePageTypeOK
<1> QED
  BY <1>1, <1>2, <1>3, <1>4

LEMMA TurnedTyped ==
  ASSUME commits \in [Restores -> CommitType]
  PROVE  Turned \in [Restores -> CommitType]
<1>1. \A r \in Restores : [commits[r] EXCEPT !.seen = Hidden] \in CommitType
  BY DEF CommitType
<1> QED
  BY <1>1 DEF Turned

\* A step of the page keeps its types.
LEMMA RestorePageNextTyped ==
  ASSUME RestorePageTypeOK, PathsThere, RestorePageNext
  PROVE  RestorePageTypeOK' /\ PathsThere'
<1>0. /\ nExports \in 0 .. MaxExports /\ MaxExports \in Nat
      /\ backups \in [BackupPaths -> BackupFile \cup {NoBackup}]
      /\ lastPreviewPath \in BackupPaths \cup {NoPath}
      /\ box \in Shown \cup {Hidden}
      /\ preview \in [Previews -> PreviewType]
      /\ commits \in [Restores -> CommitType]
      /\ pathByPill \in BOOLEAN /\ rewritten \subseteq BackupPaths
      /\ previewed \subseteq Shown
  BY RestorePageAssumption
     DEF RestorePageTypeOK, BackupFile, Shown, PreviewType, CommitType
<1>Q. ASSUME nExports' \in 0 .. MaxExports,
             backups' \in [BackupPaths -> BackupFile \cup {NoBackup}],
             lastPreviewPath' \in BackupPaths \cup {NoPath},
             box' \in Shown \cup {Hidden},
             preview' \in [Previews -> PreviewType],
             commits' \in [Restores -> CommitType],
             pathByPill' \in BOOLEAN, rewritten' \subseteq BackupPaths,
             previewed' \subseteq Shown
      PROVE  RestorePageTypeOK'
  BY <1>Q DEF RestorePageTypeOK, BackupFile, Shown, PreviewType, CommitType
<1>N. /\ NoPreview \in PreviewType /\ NoPreview.at = "idle"
      /\ NoRestore \in CommitType
  BY DEF NoPreview, PreviewType, NoRestore, CommitType
<1>P. ASSUME NEW k \in Previews, NEW rec \in PreviewType,
             preview' = [preview EXCEPT ![k] = rec],
             rec.at = "upload" => rec.file \in Uploads,
             rec.at = "read" => /\ rec.path \in BackupPaths
                                /\ rec.what \in BackupContents
      PROVE  preview' \in [Previews -> PreviewType] /\ PathsThere'
  BY <1>0, <1>P DEF PathsThere
<1>1. ASSUME NEW p \in BackupPaths, ClickPill(p)
      PROVE  RestorePageTypeOK' /\ PathsThere'
  <2>1. /\ UNCHANGED <<backups, rewritten, nExports, box, preview, previewed>>
        /\ lastPreviewPath' = p /\ pathByPill' = TRUE /\ commits' = Turned
    BY <1>1 DEF ClickPill, storedFiles
  <2> QED
    BY <1>0, <1>Q, <2>1, TurnedTyped DEF PathsThere
<1>2. ASSUME NEW w \in Passwords, NEW t \in Seconds, ExportDb(t, w)
      PROVE  RestorePageTypeOK' /\ PathsThere'
  <2>1. /\ nExports' = nExports + 1 /\ nExports < MaxExports
        /\ TakesPlace(ExportPath(t), Encrypted(nExports + 1, w))
        /\ UNCHANGED <<lastPreviewPath, box, preview, commits, pathByPill,
                       previewed>>
    BY <1>2 DEF ExportDb, backupPage
  <2>2. nExports' \in 0 .. MaxExports /\ nExports + 1 \in 1 .. MaxExports
    BY <1>0, <2>1
  <2>3. /\ ExportPath(t) \in BackupPaths
        /\ Encrypted(nExports + 1, w) \in BackupFile
    BY <2>2 DEF BackupPaths, Encrypted, BackupFile, BackupContents
  <2> QED
    BY <1>0, <1>Q, <2>1, <2>2, <2>3, TakesPlaceTyped DEF PathsThere
<1>3. ASSUME NEW w \in Passwords, NEW k \in Previews, ImportPreview(k, w)
      PROVE  RestorePageTypeOK' /\ PathsThere'
  <2> DEFINE path == preview[k].path
             rec == [preview[k] EXCEPT !.at = "read",
                                       !.what = backups[path].what]
  <2>1. /\ path \in BackupPaths /\ backups[path] # NoBackup
        /\ preview' = [preview EXCEPT ![k].at = "read",
                                      ![k].what = backups[path].what]
        /\ UNCHANGED <<backups, rewritten, nExports, lastPreviewPath, box,
                       commits, pathByPill, previewed>>
    BY <1>3 DEF ImportPreview, Opens, storedFiles, backupPage
  <2>2. backups[path] \in BackupFile /\ backups[path].what \in BackupContents
    BY <1>0, <2>1 DEF BackupFile
  <2>3. rec \in PreviewType /\ rec.at = "read" /\ rec.path \in BackupPaths
        /\ rec.what \in BackupContents
    <3>1. preview[k] \in PreviewType
      BY <1>0
    <3>2. ASSUME NEW w1 \in BackupContents
          PROVE  LET r == [preview[k] EXCEPT !.at = "read", !.what = w1]
                 IN  r \in PreviewType /\ r.at = "read"
                     /\ r.path = preview[k].path /\ r.what = w1
      BY <3>1 DEF PreviewType
    <3> QED
      BY <2>1, <2>2, <3>2
  <2>4. preview' = [preview EXCEPT ![k] = rec]
    BY <1>0, <2>1
  <2> HIDE DEF rec
  <2>5. preview' \in [Previews -> PreviewType] /\ PathsThere'
    BY <1>P, <2>3, <2>4
  <2> QED
    BY <1>0, <1>Q, <2>1, <2>5
<1>4. ASSUME NEW w \in Passwords, NEW r \in Restores, ImportCommit(r, w)
      PROVE  RestorePageTypeOK' /\ PathsThere'
  <2> DEFINE path == commits[r].path
             at == IF commits[r].at = "sent" THEN "restored"
                   ELSE "restored blind"
             rec == [commits[r] EXCEPT !.at = at, !.what = backups[path].what]
  <2>1. /\ path \in BackupPaths /\ backups[path] # NoBackup
        /\ commits' = [commits EXCEPT ![r].what = backups[path].what,
                                      ![r].at = at]
        /\ UNCHANGED <<backups, rewritten, nExports, lastPreviewPath, box,
                       preview, pathByPill, previewed>>
    BY <1>0, <1>4 DEF ImportCommit, Opens, storedFiles, backupPage
  <2>2. backups[path].what \in BackupContents
    BY <1>0, <2>1 DEF BackupFile
  <2>3. rec \in CommitType
    BY <1>0, <2>2 DEF CommitType
  <2>4. commits' = [commits EXCEPT ![r] = rec]
    BY <1>0, <2>1 DEF CommitType
  <2> HIDE DEF rec
  <2>5. commits' \in [Restores -> CommitType]
    BY <1>0, <2>3, <2>4
  <2> QED
    BY <1>0, <1>Q, <2>1, <2>5 DEF PathsThere
<1>5. ASSUME NEW k \in Previews, NEW u \in Uploads \cup {NoUpload},
             NEW p \in BackupPaths \cup {NoPath}, ClickPreview(k, u, p)
      PROVE  RestorePageTypeOK' /\ PathsThere'
  <2> DEFINE rec == IF u # NoUpload
                    THEN [NoPreview EXCEPT !.at = "upload", !.file = u]
                    ELSE IF p # NoPath
                         THEN [NoPreview EXCEPT !.at = "ask", !.path = p]
                         ELSE NoPreview
  <2>1. /\ preview' = [preview EXCEPT ![k] = rec] /\ box' = Hidden
        /\ UNCHANGED <<backups, rewritten, nExports, lastPreviewPath, commits,
                       pathByPill, previewed>>
    BY <1>5 DEF ClickPreview, storedFiles
  <2>2. /\ rec \in PreviewType /\ rec.at # "read"
        /\ rec.at = "upload" => rec.file \in Uploads
    <3>1. CASE u # NoUpload
      BY <1>N, <3>1 DEF PreviewType, NoPreview
    <3>2. CASE u = NoUpload /\ p # NoPath
      BY <1>N, <3>2 DEF PreviewType, NoPreview
    <3>3. CASE u = NoUpload /\ p = NoPath
      BY <1>N, <3>3
    <3> QED
      BY <3>1, <3>2, <3>3
  <2> HIDE DEF rec
  <2>3. preview' \in [Previews -> PreviewType] /\ PathsThere'
    BY <1>P, <2>1, <2>2
  <2> QED
    BY <1>0, <1>Q, <2>1, <2>3
<1>6. ASSUME NEW k \in Previews, NEW t \in Seconds, StageUpload(k, t)
      PROVE  RestorePageTypeOK' /\ PathsThere'
  <2> DEFINE u == preview[k].file
             p == UploadPath(t, UploadName[u])
             rec == [NoPreview EXCEPT !.at = "ask", !.path = p]
  <2>1. /\ preview[k].at = "upload"
        /\ TakesPlace(p, Encrypted(u, UploadKey[u]))
        /\ preview' = [preview EXCEPT ![k] = rec]
        /\ UNCHANGED <<nExports, lastPreviewPath, box, commits, pathByPill,
                       previewed>>
    BY <1>6 DEF StageUpload, backupPage
  <2>2. u \in Uploads
    BY <2>1 DEF PathsThere
  <2>3. p \in BackupPaths /\ Encrypted(u, UploadKey[u]) \in BackupFile
    BY <2>2, RestorePageAssumption
       DEF BackupPaths, BackupNames, Encrypted, BackupFile, BackupContents
  <2> HIDE DEF u, p
  <2>4. rec \in PreviewType /\ rec.at = "ask"
    BY <1>N, <2>3 DEF PreviewType, NoPreview
  <2> HIDE DEF rec
  <2>5. preview' \in [Previews -> PreviewType] /\ PathsThere'
    BY <1>P, <2>1, <2>4
  <2> QED
    BY <1>0, <1>Q, <2>1, <2>3, <2>5, TakesPlaceTyped
<1>7. ASSUME NEW k \in Previews, PreviewAnswered(k)
      PROVE  RestorePageTypeOK' /\ PathsThere'
  <2> DEFINE told == [path |-> preview[k].path, what |-> preview[k].what]
  <2>1. told \in Shown
    BY <1>7 DEF PreviewAnswered, PathsThere, Shown
  <2>2. /\ lastPreviewPath' = told.path /\ box' = told
        /\ previewed' = previewed \cup {told}
        /\ pathByPill' = FALSE /\ commits' = Turned
        /\ preview' = [preview EXCEPT ![k] = NoPreview]
        /\ UNCHANGED <<backups, rewritten, nExports>>
    BY <1>7 DEF PreviewAnswered, storedFiles
  <2>3. preview' \in [Previews -> PreviewType] /\ PathsThere'
    BY <1>N, <1>P, <2>2
  <2>4. lastPreviewPath' \in BackupPaths
    BY <2>1, <2>2 DEF Shown
  <2> HIDE DEF told
  <2> QED
    BY <1>0, <1>Q, <2>1, <2>2, <2>3, <2>4, TurnedTyped
<1>8. ASSUME NEW k \in Previews, PreviewFails(k)
      PROVE  RestorePageTypeOK' /\ PathsThere'
  <2>1. /\ preview' = [preview EXCEPT ![k] = NoPreview]
        /\ UNCHANGED <<backups, rewritten, nExports, lastPreviewPath, box,
                       commits, pathByPill, previewed>>
    BY <1>8 DEF PreviewFails, storedFiles, backupPage
  <2>2. preview' \in [Previews -> PreviewType] /\ PathsThere'
    BY <1>N, <1>P, <2>1
  <2> QED
    BY <1>0, <1>Q, <2>1, <2>2
<1>9. ASSUME NEW r \in Restores, ClickCommit(r) \/ SendCommit(r) \/ CommitEnds(r)
      PROVE  RestorePageTypeOK' /\ PathsThere'
  <2>1. /\ UNCHANGED <<backups, rewritten, nExports, lastPreviewPath, box,
                       preview, pathByPill, previewed>>
    BY <1>9 DEF ClickCommit, SendCommit, CommitEnds, storedFiles, backupPage
  <2>2. commits' \in [Restores -> CommitType]
    <3>1. CASE ClickCommit(r)
      <4>1. [NoRestore EXCEPT !.at = "token", !.seen = box] \in CommitType
        BY <1>0, <1>N DEF CommitType
      <4> QED
        BY <1>0, <3>1, <4>1 DEF ClickCommit
    <3>2. CASE SendCommit(r)
      <4> DEFINE at == IF pathByPill THEN "blind" ELSE "sent"
                 rec == [commits[r] EXCEPT !.path = lastPreviewPath, !.at = at]
      <4>1. rec \in CommitType
        BY <1>0 DEF CommitType
      <4>2. commits' = [commits EXCEPT ![r] = rec]
        BY <1>0, <3>2 DEF SendCommit, CommitType
      <4> HIDE DEF rec
      <4> QED
        BY <1>0, <4>1, <4>2
    <3>3. CASE CommitEnds(r)
      BY <1>0, <1>N, <3>3 DEF CommitEnds
    <3> QED
      BY <1>9, <3>1, <3>2, <3>3
  <2> QED
    BY <1>0, <1>Q, <2>1, <2>2 DEF PathsThere
<1> QED
  BY <1>1, <1>2, <1>3, <1>4, <1>5, <1>6, <1>7, <1>8, <1>9 DEF RestorePageNext

\* The page and its files keep their types.
THEOREM RestorePageTypes == RestorePageSpec => [](RestorePageTypeOK /\ PathsThere)
<1>1. RestorePageInit => RestorePageTypeOK /\ PathsThere
  <2> SUFFICES ASSUME RestorePageInit
               PROVE  RestorePageTypeOK /\ PathsThere
    OBVIOUS
  <2>1. /\ NoPreview \in PreviewType /\ NoPreview.at = "idle"
        /\ NoRestore \in CommitType
    BY DEF NoPreview, PreviewType, NoRestore, CommitType
  <2>2. nExports \in 0 .. MaxExports
    BY RestorePageAssumption DEF RestorePageInit
  <2>3. preview \in [Previews -> PreviewType] /\ PathsThere
    BY <2>1 DEF RestorePageInit, PathsThere
  <2>4. commits \in [Restores -> CommitType]
    BY <2>1 DEF RestorePageInit
  <2>5. backups \in [BackupPaths -> BackupFile \cup {NoBackup}]
    BY DEF RestorePageInit
  <2> QED
    BY <2>2, <2>3, <2>4, <2>5
       DEF RestorePageInit, RestorePageTypeOK, BackupFile, Shown, PreviewType,
           CommitType
<1>2. RestorePageTypeOK /\ PathsThere /\ UNCHANGED restorePageVars
        => RestorePageTypeOK' /\ PathsThere'
  BY DEF restorePageVars, storedFiles, backupPage, RestorePageTypeOK, PathsThere
<1> QED
  BY <1>1, <1>2, RestorePageNextTyped, PTL DEF RestorePageSpec

\* The same after the step.
StillHolds(path, what) ==
  path \notin rewritten' =>
    backups'[path] # NoBackup /\ backups'[path].what = what

\* No step takes back what a preview has said of a file, short of another
\* file in its place.
LEMMA HoldsStable ==
  ASSUME RestorePageTypeOK, PathsThere, RestorePageNext
  PROVE  /\ rewritten \subseteq rewritten' /\ previewed \subseteq previewed'
         /\ \A p \in BackupPaths, w \in BackupContents :
              Holds(p, w) => StillHolds(p, w)
<1>1. CASE UNCHANGED storedFiles
  <2>1. previewed \subseteq previewed'
    BY DEF RestorePageNext, ClickPill, ExportDb, ImportPreview, ImportCommit,
           ClickPreview, StageUpload, PreviewAnswered, PreviewFails, ClickCommit,
           SendCommit, CommitEnds
  <2> QED
    BY <1>1, <2>1 DEF storedFiles, Holds, StillHolds
<1>2. ASSUME NEW p \in BackupPaths, NEW file \in BackupFile,
             TakesPlace(p, file), UNCHANGED previewed
      PROVE  /\ rewritten \subseteq rewritten' /\ previewed \subseteq previewed'
             /\ \A q \in BackupPaths, w \in BackupContents :
                  Holds(q, w) => StillHolds(q, w)
  BY <1>2, TakesPlaceTyped DEF Holds, StillHolds
<1>3. ASSUME NEW w \in Passwords, NEW t \in Seconds, ExportDb(t, w)
      PROVE  \E p \in BackupPaths, file \in BackupFile :
               TakesPlace(p, file) /\ UNCHANGED previewed
  <2>0. nExports \in 0 .. MaxExports /\ nExports < MaxExports
    BY <1>3 DEF ExportDb, RestorePageTypeOK
  <2>1. nExports + 1 \in 1 .. MaxExports
    BY <2>0, RestorePageAssumption
  <2>2. /\ ExportPath(t) \in BackupPaths
        /\ Encrypted(nExports + 1, w) \in BackupFile
    BY <2>1 DEF BackupPaths, Encrypted, BackupFile, BackupContents
  <2> QED
    BY <1>3, <2>2 DEF ExportDb
<1>4. ASSUME NEW k \in Previews, NEW t \in Seconds, StageUpload(k, t)
      PROVE  \E p \in BackupPaths, file \in BackupFile :
               TakesPlace(p, file) /\ UNCHANGED previewed
  <2> DEFINE u == preview[k].file
             p == UploadPath(t, UploadName[u])
  <2>1. /\ preview[k].at = "upload" /\ UNCHANGED previewed
        /\ TakesPlace(p, Encrypted(u, UploadKey[u]))
    BY <1>4 DEF StageUpload
  <2>2. u \in Uploads
    BY <2>1 DEF PathsThere
  <2>3. p \in BackupPaths /\ Encrypted(u, UploadKey[u]) \in BackupFile
    BY <2>2, RestorePageAssumption
       DEF BackupPaths, BackupNames, Encrypted, BackupFile, BackupContents
  <2> QED
    BY <2>1, <2>3
<1>5. \/ UNCHANGED storedFiles
      \/ \E w \in Passwords, t \in Seconds : ExportDb(t, w)
      \/ \E k \in Previews, t \in Seconds : StageUpload(k, t)
  BY DEF RestorePageNext, ClickPill, ImportPreview, ImportCommit, ClickPreview,
         PreviewAnswered, PreviewFails, ClickCommit, SendCommit, CommitEnds
<1> QED
  BY <1>1, <1>2, <1>3, <1>4, <1>5

\* Previews and the page only ever speak of previews that were shown.
LEMMA KeepsPreviews ==
  ASSUME RestorePageTypeOK, PathsThere, PreviewInv, RestorePageNext
  PROVE  PreviewInv'
<1>0. /\ preview \in [Previews -> PreviewType] /\ previewed \subseteq Shown
      /\ backups \in [BackupPaths -> BackupFile \cup {NoBackup}]
  BY DEF RestorePageTypeOK, BackupFile, Shown, PreviewType
<1>H. /\ rewritten \subseteq rewritten' /\ previewed \subseteq previewed'
      /\ \A p \in BackupPaths, w \in BackupContents :
           Holds(p, w) => StillHolds(p, w)
  BY HoldsStable
<1>E. \A e \in previewed : StillHolds(e.path, e.what)
  BY <1>0, <1>H DEF PreviewInv, Shown
<1>K. ASSUME NEW k \in Previews, preview[k].at = "read"
      PROVE  StillHolds(preview[k].path, preview[k].what)
  <2>1. /\ preview[k].path \in BackupPaths /\ preview[k].what \in BackupContents
        /\ Holds(preview[k].path, preview[k].what)
    BY <1>K DEF PreviewInv, PathsThere
  <2> QED
    BY <1>H, <2>1
\* The page stays as it is, or shows no box.
<1>S. ASSUME \A k \in Previews :
               \/ preview'[k] = preview[k]
               \/ preview'[k].at = "read" =>
                    StillHolds(preview'[k].path, preview'[k].what),
             box' \in {box, Hidden},
             UNCHANGED <<lastPreviewPath, pathByPill, previewed>>
      PROVE  PreviewInv'
  <2>1. \A k \in Previews : preview'[k].at = "read" =>
          StillHolds(preview'[k].path, preview'[k].what)
    BY <1>K, <1>S
  <2>2. /\ lastPreviewPath' # NoPath /\ ~pathByPill' =>
             \E e \in previewed' : e.path = lastPreviewPath'
        /\ box' # Hidden => /\ box' \in previewed'
                            /\ ~pathByPill' => box'.path = lastPreviewPath'
    BY <1>S DEF PreviewInv
  <2>3. \A e \in previewed' : StillHolds(e.path, e.what)
    BY <1>E, <1>S
  <2> QED
    BY <2>1, <2>2, <2>3 DEF PreviewInv, Holds, StillHolds
\* A click gets a record in which nothing has been read.
<1>T. ASSUME NEW k \in Previews, NEW rec, rec.at # "read",
             preview' = [preview EXCEPT ![k] = rec], box' \in {box, Hidden},
             UNCHANGED <<lastPreviewPath, pathByPill, previewed>>
      PROVE  PreviewInv'
  <2>1. /\ \A j \in Previews \ {k} : preview'[j] = preview[j]
        /\ preview'[k].at # "read"
    BY <1>0, <1>T
  <2> QED
    BY <1>S, <1>T, <2>1
<1>1. ASSUME NEW p \in BackupPaths, ClickPill(p)
      PROVE  PreviewInv'
  BY <1>1, <1>E, <1>K DEF ClickPill, storedFiles, PreviewInv, Holds
<1>2. ASSUME NEW w \in Passwords, NEW k \in Previews, ImportPreview(k, w)
      PROVE  PreviewInv'
  <2> DEFINE path == preview[k].path
  <2>1. /\ backups[path] # NoBackup /\ UNCHANGED storedFiles
        /\ preview'[k].path = path /\ preview'[k].what = backups[path].what
        /\ \A j \in Previews \ {k} : preview'[j] = preview[j]
        /\ UNCHANGED <<lastPreviewPath, box, pathByPill, previewed>>
    BY <1>0, <1>2 DEF ImportPreview, Opens, backupPage, PreviewType
  <2>2. StillHolds(preview'[k].path, preview'[k].what)
    BY <2>1 DEF StillHolds, storedFiles
  <2> QED
    BY <1>S, <2>1, <2>2
<1>3. ASSUME NEW k \in Previews, NEW u \in Uploads \cup {NoUpload},
             NEW p \in BackupPaths \cup {NoPath}, ClickPreview(k, u, p)
      PROVE  PreviewInv'
  <2> DEFINE rec == IF u # NoUpload
                    THEN [NoPreview EXCEPT !.at = "upload", !.file = u]
                    ELSE IF p # NoPath
                         THEN [NoPreview EXCEPT !.at = "ask", !.path = p]
                         ELSE NoPreview
  <2>1. rec.at # "read"
    BY DEF NoPreview
  <2>2. /\ preview' = [preview EXCEPT ![k] = rec] /\ box' = Hidden
        /\ UNCHANGED <<lastPreviewPath, pathByPill, previewed>>
    BY <1>3 DEF ClickPreview
  <2> QED
    BY <1>T, <2>1, <2>2
<1>4. ASSUME NEW k \in Previews,
             \/ \E t \in Seconds : StageUpload(k, t)
             \/ PreviewFails(k)
      PROVE  PreviewInv'
  <2>1. \A p : [NoPreview EXCEPT !.at = "ask", !.path = p].at # "read"
    BY DEF NoPreview
  <2>2. NoPreview.at # "read"
    BY DEF NoPreview
  <2>3. PICK rec : /\ rec.at # "read"
                   /\ preview' = [preview EXCEPT ![k] = rec]
    BY <1>4, <2>1, <2>2 DEF StageUpload, PreviewFails
  <2>4. UNCHANGED <<lastPreviewPath, box, pathByPill, previewed>>
    BY <1>4 DEF StageUpload, PreviewFails, backupPage
  <2> QED
    BY <1>T, <2>3, <2>4
<1>5. ASSUME NEW k \in Previews, PreviewAnswered(k)
      PROVE  PreviewInv'
  <2> DEFINE told == [path |-> preview[k].path, what |-> preview[k].what]
  <2>1. /\ preview[k].at = "read"
        /\ lastPreviewPath' = told.path /\ box' = told
        /\ previewed' = previewed \cup {told}
        /\ preview' = [preview EXCEPT ![k] = NoPreview]
    BY <1>5 DEF PreviewAnswered
  <2>2. StillHolds(told.path, told.what)
    BY <1>K, <2>1
  <2>3. \A e \in previewed' : StillHolds(e.path, e.what)
    BY <1>E, <2>1, <2>2
  <2>4. ASSUME NEW j \in Previews, preview'[j].at = "read"
        PROVE  StillHolds(preview'[j].path, preview'[j].what)
    <3>1. j # k /\ preview'[j] = preview[j]
      BY <1>0, <2>1, <2>4 DEF NoPreview
    <3> QED
      BY <1>K, <2>4, <3>1
  <2>5. told \in previewed'
    BY <2>1
  <2>6. \A j \in Previews : preview'[j].at = "read" =>
          StillHolds(preview'[j].path, preview'[j].what)
    BY <2>4
  <2> HIDE DEF told
  <2> QED
    BY <2>1, <2>3, <2>5, <2>6 DEF PreviewInv, Holds, StillHolds
<1>6. ASSUME UNCHANGED <<preview, box, lastPreviewPath, pathByPill, previewed>>
      PROVE  PreviewInv'
  BY <1>6, <1>S
<1>7. \/ UNCHANGED <<preview, box, lastPreviewPath, pathByPill, previewed>>
      \/ \E p \in BackupPaths : ClickPill(p)
      \/ \E w \in Passwords, k \in Previews : ImportPreview(k, w)
      \/ \E k \in Previews :
           \/ \E u \in Uploads \cup {NoUpload}, p \in BackupPaths \cup {NoPath} :
                ClickPreview(k, u, p)
           \/ \E t \in Seconds : StageUpload(k, t)
           \/ PreviewFails(k)
           \/ PreviewAnswered(k)
  BY DEF RestorePageNext, ExportDb, ImportCommit, ClickCommit, SendCommit,
         CommitEnds, backupPage
<1> QED
  BY <1>1, <1>2, <1>3, <1>4, <1>5, <1>6, <1>7

\* A restore has the path of a preview, unless it was taken from the list.
LEMMA KeepsCommits ==
  ASSUME RestorePageTypeOK, PathsThere, PreviewInv, CommitInv,
         RestoresWhatIsShown, RestorePageNext
  PROVE  CommitInv' /\ RestoresWhatIsShown'
<1>0. /\ commits \in [Restores -> CommitType] /\ previewed \subseteq Shown
      /\ lastPreviewPath \in BackupPaths \cup {NoPath}
      /\ NoPath \notin BackupPaths
  BY RestorePageAssumption DEF RestorePageTypeOK, BackupFile, Shown, CommitType
<1>H. rewritten \subseteq rewritten' /\ previewed \subseteq previewed'
  BY HoldsStable
<1> DEFINE Ok(c, last, pill, seenBy) ==
             /\ c.at = "token" =>
                  /\ last # NoPath
                  /\ c.seen # Hidden =>
                       /\ c.seen \in seenBy
                       /\ ~pill => c.seen.path = last
             /\ c.at = "sent" =>
                  /\ \E e \in seenBy : e.path = c.path
                  /\ c.seen # Hidden => c.seen \in seenBy
                                        /\ c.seen.path = c.path
           Right(c, seenBy, twice) ==
             c.at = "restored" /\ c.path \notin twice =>
               /\ [path |-> c.path, what |-> c.what] \in seenBy
               /\ c.seen # Hidden => c.what = c.seen.what
<1>A. \A r \in Restores : /\ Ok(commits[r], lastPreviewPath, pathByPill, previewed)
                          /\ Right(commits[r], previewed, rewritten)
  BY DEF CommitInv, RestoresWhatIsShown
<1>Z. SUFFICES ASSUME NEW r \in Restores
               PROVE  /\ Ok(commits'[r], lastPreviewPath', pathByPill', previewed')
                      /\ Right(commits'[r], previewed', rewritten')
  BY DEF CommitInv, RestoresWhatIsShown
<1>R. /\ Ok(commits[r], lastPreviewPath, pathByPill, previewed)
      /\ Right(commits[r], previewed, rewritten)
  BY <1>A
\* Nothing the restore depends on changes.
<1>S. ASSUME commits'[r] = commits[r], UNCHANGED <<lastPreviewPath, pathByPill>>
      PROVE  /\ Ok(commits'[r], lastPreviewPath', pathByPill', previewed')
             /\ Right(commits'[r], previewed', rewritten')
  BY <1>H, <1>R, <1>S
<1>1. ASSUME commits' = Turned, lastPreviewPath' # NoPath
      PROVE  /\ Ok(commits'[r], lastPreviewPath', pathByPill', previewed')
             /\ Right(commits'[r], previewed', rewritten')
  <2>1. CASE commits[r].at = "token"
    <3>1. commits'[r].at = "token" /\ commits'[r].seen = Hidden
      BY <1>0, <1>1, <2>1 DEF Turned, CommitType
    <3> QED
      BY <1>1, <3>1
  <2>2. CASE commits[r].at # "token"
    <3>1. commits'[r] = commits[r]
      BY <1>1, <2>2 DEF Turned
    <3> QED
      BY <1>H, <1>R, <2>2, <3>1
  <2> QED
    BY <2>1, <2>2
<1>2. ASSUME NEW s \in Restores, ClickCommit(s)
      PROVE  /\ Ok(commits'[r], lastPreviewPath', pathByPill', previewed')
             /\ Right(commits'[r], previewed', rewritten')
  <2>1. CASE s = r
    <3>1. /\ commits'[r].at = "token" /\ commits'[r].seen = box
          /\ lastPreviewPath # NoPath
          /\ UNCHANGED <<lastPreviewPath, pathByPill, previewed>>
      BY <1>0, <1>2, <2>1 DEF ClickCommit, NoRestore, backupPage
    <3> QED
      BY <3>1 DEF PreviewInv
  <2>2. CASE s # r
    BY <1>0, <1>2, <1>S, <2>2 DEF ClickCommit, backupPage
  <2> QED
    BY <2>1, <2>2
<1>3. ASSUME NEW s \in Restores, SendCommit(s)
      PROVE  /\ Ok(commits'[r], lastPreviewPath', pathByPill', previewed')
             /\ Right(commits'[r], previewed', rewritten')
  <2>1. CASE s = r
    <3>1. /\ commits[r].at = "token" /\ commits'[r].seen = commits[r].seen
          /\ commits'[r].path = lastPreviewPath
          /\ commits'[r].at = IF pathByPill THEN "blind" ELSE "sent"
          /\ UNCHANGED <<lastPreviewPath, pathByPill, previewed>>
      BY <1>0, <1>3, <2>1 DEF SendCommit, CommitType, backupPage
    <3> QED
      BY <1>R, <3>1 DEF PreviewInv
  <2>2. CASE s # r
    BY <1>0, <1>3, <1>S, <2>2 DEF SendCommit, backupPage
  <2> QED
    BY <2>1, <2>2
<1>4. ASSUME NEW w \in Passwords, NEW s \in Restores, ImportCommit(s, w)
      PROVE  /\ Ok(commits'[r], lastPreviewPath', pathByPill', previewed')
             /\ Right(commits'[r], previewed', rewritten')
  <2>1. CASE s = r
    <3> DEFINE c == commits[r]
    <3>1. /\ commits'[r].seen = c.seen /\ commits'[r].path = c.path
          /\ commits'[r].what = backups[c.path].what
          /\ commits'[r].at = IF c.at = "sent" THEN "restored"
                              ELSE "restored blind"
          /\ UNCHANGED <<previewed, rewritten>>
      BY <1>0, <1>4, <2>1 DEF ImportCommit, CommitType, storedFiles
    <3>2. ASSUME c.at = "sent", c.path \notin rewritten
          PROVE  /\ [path |-> c.path, what |-> backups[c.path].what] \in previewed
                 /\ c.seen # Hidden => backups[c.path].what = c.seen.what
      <4>1. PICK e \in previewed : e.path = c.path
        BY <1>R, <3>2
      <4>2. backups[c.path].what = e.what
        BY <3>2, <4>1 DEF PreviewInv, Holds
      <4>3. e = [path |-> e.path, what |-> e.what]
        BY <1>0 DEF Shown
      <4>4. c.seen # Hidden => backups[c.path].what = c.seen.what
        BY <1>R, <3>2 DEF PreviewInv, Holds
      <4> QED
        BY <4>1, <4>2, <4>3, <4>4
    <3> QED
      BY <3>1, <3>2
  <2>2. CASE s # r
    BY <1>0, <1>4, <1>S, <2>2 DEF ImportCommit, backupPage
  <2> QED
    BY <2>1, <2>2
<1>5. ASSUME NEW s \in Restores, CommitEnds(s)
      PROVE  /\ Ok(commits'[r], lastPreviewPath', pathByPill', previewed')
             /\ Right(commits'[r], previewed', rewritten')
  <2>1. CASE s = r
    <3>1. commits'[r].at = "idle"
      BY <1>0, <1>5, <2>1 DEF CommitEnds, NoRestore
    <3> QED
      BY <3>1
  <2>2. CASE s # r
    BY <1>0, <1>5, <1>S, <2>2 DEF CommitEnds, backupPage
  <2> QED
    BY <2>1, <2>2
<1>6. ASSUME NEW k \in Previews, PreviewAnswered(k)
      PROVE  commits' = Turned /\ lastPreviewPath' # NoPath
  BY <1>0, <1>6 DEF PreviewAnswered, PathsThere
<1>7. ASSUME NEW p \in BackupPaths, ClickPill(p)
      PROVE  commits' = Turned /\ lastPreviewPath' # NoPath
  BY <1>0, <1>7 DEF ClickPill
<1>8. \/ UNCHANGED <<commits, lastPreviewPath, pathByPill>>
      \/ \E p \in BackupPaths : ClickPill(p)
      \/ \E k \in Previews : PreviewAnswered(k)
      \/ \E w \in Passwords, s \in Restores : ImportCommit(s, w)
      \/ \E s \in Restores : ClickCommit(s) \/ SendCommit(s) \/ CommitEnds(s)
  BY DEF RestorePageNext, ExportDb, ImportPreview, ClickPreview, StageUpload,
         PreviewFails, backupPage
<1> HIDE DEF Ok, Right
<1> QED
  BY <1>1, <1>2, <1>3, <1>4, <1>5, <1>6, <1>7, <1>8, <1>S

\* What the server restores for a path that a preview gave is what a preview
\* of that path has shown (admin.js previewBackup, commitRestore; export.py
\* import_preview, _load_and_decrypt).
THEOREM RestoresWhatIsShownSafe == RestorePageSpec => []RestoresWhatIsShown
<1> DEFINE Inv == PreviewInv /\ CommitInv /\ RestoresWhatIsShown
<1>1. RestorePageInit => Inv
  BY DEF RestorePageInit, PreviewInv, CommitInv, RestoresWhatIsShown, NoPreview,
         NoRestore
<1>2. Inv /\ UNCHANGED restorePageVars => Inv'
  BY DEF restorePageVars, storedFiles, backupPage, PreviewInv, CommitInv,
         RestoresWhatIsShown, Holds
<1>3. Inv /\ RestorePageTypeOK /\ PathsThere /\ RestorePageNext => Inv'
  BY KeepsPreviews, KeepsCommits
<1> QED
  BY <1>1, <1>2, <1>3, RestorePageTypes, PTL DEF RestorePageSpec
-----------------------------------------------------------------------------
(* The page of movements *)

\* Ids without a gap, downwards.
Descends(s) == \A i \in 1 .. Len(s) : s[i] = s[1] + 1 - i

\* What a load brings continues what is shown; the cursor is its last id.
LogInv ==
  /\ Descends(shown)
  /\ shown = <<>> => logCursor = NoId
  /\ shown # <<>> => /\ logCursor \in {NoId, shown[Len(shown)]}
                     /\ logCursor = NoId => ~moreShown
                     /\ load.at # "idle" => load.below = shown[Len(shown)]
                     /\ ~reopened => shown[1] = newestThen
  /\ load.at # "idle" /\ shown = <<>> /\ ~reopened => load.below = NoId
  /\ load.at = "read" /\ load.ids # <<>> =>
       /\ Descends(load.ids)
       /\ load.below # NoId => load.ids[1] = load.below - 1
       /\ load.below = NoId /\ ~reopened => load.ids[1] = newestThen

\* A page from an id down: its ids, without a gap.
LEMMA PageFromFacts ==
  ASSUME NEW m \in Nat
  PROVE  /\ PageFrom(m) \in Seq(1 .. m)
         /\ Descends(PageFrom(m))
         /\ PageFrom(m) # <<>> => PageFrom(m)[1] = m
<1> DEFINE k == Lesser(PageSize, m)
<1>1. k \in Nat /\ k <= m
  BY LogPageAssumption DEF Lesser
<1>2. PageFrom(m) = [i \in 1 .. k |-> m + 1 - i]
  BY DEF PageFrom
<1> HIDE DEF k
<1>3. \A i \in 1 .. k : m + 1 - i \in 1 .. m
  BY <1>1
<1>4. PageFrom(m) \in Seq(1 .. m) /\ Len(PageFrom(m)) = k
  BY <1>1, <1>2, <1>3
<1>5. \A i \in 1 .. k : PageFrom(m)[i] = m + 1 - i
  BY <1>2
<1>6. PageFrom(m) # <<>> => 1 \in 1 .. k
  BY <1>1, <1>4
<1>7. k # 0 => 1 \in 1 .. k
  BY <1>1
<1> QED
  BY <1>1, <1>4, <1>5, <1>6, <1>7 DEF Descends

\* The page below an id, or from the newest.
LEMMA PageBelowFacts ==
  ASSUME LogTypeOK, NEW below \in 0 .. nMovements
  PROVE  /\ PageBelow(below) \in Seq(1 .. nMovements)
         /\ Descends(PageBelow(below))
         /\ PageBelow(below) # <<>> =>
              PageBelow(below)[1] = IF below = NoId THEN nMovements
                                    ELSE below - 1
<1>0. nMovements \in Nat
  BY LogPageAssumption DEF LogTypeOK
<1>1. CASE below = NoId
  BY <1>0, <1>1, PageFromFacts DEF PageBelow
<1>2. CASE below # NoId
  <2>1. below - 1 \in Nat /\ 1 .. (below - 1) \subseteq 1 .. nMovements
    BY <1>0, <1>2 DEF NoId
  <2>2. PageFrom(below - 1) \in Seq(1 .. (below - 1))
    BY <2>1, PageFromFacts
  <2>3. PageFrom(below - 1) \in Seq(1 .. nMovements)
    BY <2>1, <2>2, SeqMonotonic
  <2> QED
    BY <1>2, <2>1, <2>3, PageFromFacts DEF PageBelow
<1> QED
  BY <1>1, <1>2

\* A page that continues another.
LEMMA PagesJoin ==
  ASSUME NEW s \in Seq(Nat), NEW t \in Seq(Nat), Descends(s), Descends(t),
         t # <<>>, s # <<>> => t[1] = s[Len(s)] - 1
  PROVE  /\ Descends(s \o t) /\ s \o t # <<>>
         /\ (s \o t)[Len(s \o t)] = t[Len(t)]
         /\ (s \o t)[1] = IF s = <<>> THEN t[1] ELSE s[1]
<1> DEFINE j == s \o t
<1>1. /\ Len(s) \in Nat /\ Len(t) \in Nat /\ Len(t) > 0
      /\ Len(j) = Len(s) + Len(t) /\ j \in Seq(Nat)
      /\ s = <<>> <=> Len(s) = 0
  OBVIOUS
<1>2. \A i \in 1 .. Len(s) + Len(t) :
        j[i] = IF i <= Len(s) THEN s[i] ELSE t[i - Len(s)]
  BY ConcatProperties
<1> HIDE DEF j
<1>3. \A i \in 1 .. Len(s) : s[i] \in Nat /\ s[i] = s[1] + 1 - i
  BY ElementOfSeq DEF Descends
<1>4. \A i \in 1 .. Len(t) : t[i] \in Nat /\ t[i] = t[1] + 1 - i
  BY ElementOfSeq DEF Descends
<1>7. t[1] \in Nat
  BY <1>1, <1>4
<1>5. CASE Len(s) = 0
  <2>1. j[1] = t[1] /\ j[Len(j)] = t[Len(t)] /\ j # <<>>
    BY <1>1, <1>2, <1>5
  <2>2. \A i \in 1 .. Len(j) : j[i] = j[1] + 1 - i
    BY <1>1, <1>2, <1>4, <1>5, <1>7, <2>1
  <2> QED
    BY <1>1, <1>5, <2>1, <2>2 DEF Descends, j
<1>6. CASE Len(s) # 0
  <2>0. 1 \in 1 .. Len(s) /\ Len(s) \in 1 .. Len(s)
    BY <1>1, <1>6
  <2>4. /\ Len(j) \in 1 .. Len(s) + Len(t) /\ ~(Len(j) <= Len(s))
        /\ Len(j) - Len(s) = Len(t) /\ 1 \in 1 .. Len(s) + Len(t)
        /\ 1 <= Len(s)
    BY <1>1, <1>6
  <2>5. s[1] \in Nat /\ s[Len(s)] = s[1] + 1 - Len(s)
    BY <1>3, <2>0
  <2>6. j[1] = s[1] /\ j[Len(j)] = t[Len(t)]
    BY <1>2, <2>4
  <2>1. /\ s[1] \in Nat /\ j[1] = s[1] /\ s[Len(s)] = s[1] + 1 - Len(s)
        /\ j[Len(j)] = t[Len(t)] /\ j # <<>>
    BY <1>1, <1>6, <2>5, <2>6
  <2>2. t[1] = s[1] - Len(s)
    BY <1>1, <1>6, <2>1
  <2>3. ASSUME NEW i \in 1 .. Len(j)
        PROVE  j[i] = j[1] + 1 - i
    <3>1. CASE i <= Len(s)
      <4>1. i \in 1 .. Len(s) /\ i \in 1 .. Len(s) + Len(t)
        BY <1>1, <3>1
      <4>2. j[i] = s[i] /\ s[i] = s[1] + 1 - i
        BY <1>2, <1>3, <3>1, <4>1
      <4> QED
        BY <2>6, <4>2
    <3>2. CASE ~(i <= Len(s))
      <4>1. i - Len(s) \in 1 .. Len(t) /\ j[i] = t[i - Len(s)]
        BY <1>1, <1>2, <2>3, <3>2
      <4>2. t[i - Len(s)] = t[1] + 1 - (i - Len(s))
        BY <1>4, <4>1
      <4>3. i \in Int /\ Len(s) \in Int
        BY <1>1
      <4>4. t[1] + 1 - (i - Len(s)) = s[1] + 1 - i
        BY <2>2, <2>5, <4>3
      <4> QED
        BY <2>6, <4>1, <4>2, <4>4
    <3> QED
      BY <3>1, <3>2
  <2> QED
    BY <1>1, <1>6, <2>1, <2>3 DEF Descends, j
<1> QED
  BY <1>5, <1>6

\* Types and invariant hold as the page is opened.
LEMMA LogInitInv ==
  ASSUME LogInit
  PROVE  LogTypeOK /\ LogInv
<1>1. nMovements \in Nat /\ NoId \in 0 .. nMovements
      /\ nMovements \in 0 .. MaxMovements
  BY LogPageAssumption DEF LogInit, NoId
<1>2. shown = <<>> /\ <<>> \in Seq(1 .. nMovements) /\ Descends(<<>>)
  BY DEF LogInit, Descends
<1>3. load = [at |-> "sent", below |-> NoId, ids |-> <<>>]
  BY DEF LogInit, Sent, NoLoad
<1>4. load \in [at : {"idle", "sent", "read"}, below : 0 .. nMovements,
                ids : Seq(1 .. nMovements)]
  BY <1>1, <1>2, <1>3
<1>5. LogTypeOK
  BY <1>1, <1>2, <1>4 DEF LogInit, LogTypeOK
<1> QED
  BY <1>1, <1>2, <1>3, <1>5 DEF LogInit, LogInv

\* A step of the page keeps types and invariant.
LEMMA LogNextInv ==
  ASSUME LogTypeOK, LogInv, LogNext
  PROVE  LogTypeOK' /\ LogInv'
<1>0. /\ nMovements \in Nat /\ MaxMovements \in Nat
      /\ NoId \in 0 .. nMovements /\ <<>> \in Seq(1 .. nMovements)
  BY LogPageAssumption DEF LogTypeOK, NoId
<1>1. CASE RecordMovement
  <2>1. nMovements' \in 0 .. MaxMovements /\ nMovements' = nMovements + 1
    BY <1>0, <1>1 DEF RecordMovement
  <2>2. /\ 1 .. nMovements \subseteq 1 .. nMovements'
        /\ 0 .. nMovements \subseteq 0 .. nMovements'
    BY <1>0, <2>1
  <2>3. UNCHANGED <<shown, logCursor, moreShown, load, newestThen, reopened>>
    BY <1>1 DEF RecordMovement
  <2>4. Seq(1 .. nMovements) \subseteq Seq(1 .. nMovements')
    BY <2>2, SeqMonotonic
  <2>5. LogTypeOK'
    BY <2>1, <2>2, <2>3, <2>4 DEF LogTypeOK
  <2> QED
    BY <2>3, <2>5 DEF LogInv, Descends
<1>2. CASE OpenLogs
  <2>1. load' \in {load, [at |-> "sent", below |-> NoId, ids |-> <<>>]}
    BY <1>2 DEF OpenLogs, Sent, NoLoad
  <2>6. load' \in [at : {"idle", "sent", "read"}, below : 0 .. nMovements,
                   ids : Seq(1 .. nMovements)]
    <3>1. load \in [at : {"idle", "sent", "read"}, below : 0 .. nMovements,
                    ids : Seq(1 .. nMovements)]
      BY DEF LogTypeOK
    <3>2. [at |-> "sent", below |-> NoId, ids |-> <<>>]
            \in [at : {"idle", "sent", "read"}, below : 0 .. nMovements,
                 ids : Seq(1 .. nMovements)]
      BY <1>0
    <3> QED
      BY <1>2, <2>1, <3>1, <3>2 DEF OpenLogs
  <2>2. LogTypeOK'
    BY <1>0, <1>2, <2>6 DEF OpenLogs, LogTypeOK
  <2>3. Descends(<<>>)
    BY DEF Descends
  <2>4. CASE load.at = "idle"
    <3>1. load' = [at |-> "sent", below |-> NoId, ids |-> <<>>]
      BY <1>2, <2>4 DEF OpenLogs, Sent, NoLoad
    <3> QED
      BY <1>2, <2>2, <2>3, <3>1 DEF OpenLogs, LogInv
  <2>5. CASE load.at # "idle"
    BY <1>2, <2>2, <2>3, <2>5 DEF OpenLogs, LogInv
  <2> QED
    BY <2>4, <2>5
<1>3. CASE FetchMore
  <2>1. load' = [at |-> "sent", below |-> logCursor, ids |-> <<>>]
    BY <1>3 DEF FetchMore, Sent, NoLoad
  <2>2. LogTypeOK'
    BY <1>0, <1>3, <2>1 DEF FetchMore, LogTypeOK
  <2> QED
    BY <1>3, <2>1, <2>2 DEF FetchMore, LogInv, Descends
<1>4. CASE ReadLogs
  <2> DEFINE ids == PageBelow(load.below)
  <2>1. load.below \in 0 .. nMovements
    BY DEF LogTypeOK
  <2>2. /\ ids \in Seq(1 .. nMovements) /\ Descends(ids)
        /\ ids # <<>> => ids[1] = IF load.below = NoId THEN nMovements
                                  ELSE load.below - 1
    BY <2>1, PageBelowFacts
  <2> HIDE DEF ids
  <2>3. load' = [load EXCEPT !.at = "read", !.ids = ids]
    BY <1>4 DEF ReadLogs, ids
  <2>4. /\ load'.at = "read" /\ load'.ids = ids /\ load'.below = load.below
        /\ load' \in [at : {"idle", "sent", "read"}, below : 0 .. nMovements,
                      ids : Seq(1 .. nMovements)]
    BY <2>2, <2>3 DEF LogTypeOK
  <2>5. LogTypeOK'
    BY <1>0, <1>4, <2>4 DEF ReadLogs, LogTypeOK
  <2>6. shown # <<>> => load.below # NoId
    <3>1. shown # <<>> => Len(shown) \in 1 .. Len(shown)
      BY DEF LogTypeOK
    <3>2. shown # <<>> => shown[Len(shown)] \in 1 .. nMovements
      BY <3>1 DEF LogTypeOK
    <3> QED
      BY <1>4, <3>2 DEF LogInv, ReadLogs, NoId
  <2> QED
    BY <1>4, <2>2, <2>4, <2>5, <2>6 DEF ReadLogs, LogInv, Descends
<1>5. CASE PageArrives
  <2> DEFINE ids == load.ids
  <2>1. ids \in Seq(1 .. nMovements) /\ ids # <<>> /\ Descends(ids)
    BY <1>5 DEF PageArrives, LogTypeOK, LogInv
  <2>2. shown \in Seq(1 .. nMovements) /\ Descends(shown)
    BY DEF LogTypeOK, LogInv
  <2>3. Seq(1 .. nMovements) \subseteq Seq(Nat)
    BY <1>0
  <2>4. shown # <<>> => shown[Len(shown)] \in 1 .. nMovements
    <3>1. shown # <<>> => Len(shown) \in 1 .. Len(shown)
      BY <2>2
    <3> QED
      BY <2>2, <3>1, ElementOfSeq
  <2>5. shown # <<>> => load.below # NoId
                          /\ ids[1] = shown[Len(shown)] - 1
    BY <1>5, <2>4 DEF PageArrives, LogInv, NoId
  <2>6. ids[Len(ids)] \in 1 .. nMovements
    <3>1. Len(ids) \in 1 .. Len(ids)
      BY <2>1
    <3> QED
      BY <2>1, <3>1, ElementOfSeq
  <2>7. NextCursor(ids) \in {NoId, ids[Len(ids)]}
    BY DEF NextCursor
  <2>8. /\ shown' = shown \o ids /\ logCursor' = NextCursor(ids)
        /\ moreShown' = (NextCursor(ids) # NoId)
        /\ load' = [at |-> "idle", below |-> NoId, ids |-> <<>>]
        /\ UNCHANGED <<nMovements, newestThen, reopened>>
    BY <1>5 DEF PageArrives, NoLoad
  <2>9. shown = <<>> /\ ~reopened => ids[1] = newestThen
    BY <1>5 DEF PageArrives, LogInv
  <2> HIDE DEF ids
  <2>10. /\ Descends(shown') /\ shown' # <<>>
         /\ shown'[Len(shown')] = ids[Len(ids)]
         /\ shown'[1] = IF shown = <<>> THEN ids[1] ELSE shown[1]
    BY <2>1, <2>2, <2>3, <2>5, <2>8, PagesJoin
  <2>11. shown' \in Seq(1 .. nMovements)
    BY <2>1, <2>2, <2>8
  <2>12. LogTypeOK'
    BY <1>0, <2>6, <2>7, <2>8, <2>11 DEF LogTypeOK
  <2>13. ~reopened => shown'[1] = newestThen
    BY <2>9, <2>10 DEF LogInv
  <2> QED
    BY <2>7, <2>8, <2>10, <2>12, <2>13 DEF LogInv
<1>6. CASE NothingArrives
  <2>1. /\ load' = [at |-> "idle", below |-> NoId, ids |-> <<>>]
        /\ load' \in [at : {"idle", "sent", "read"}, below : 0 .. nMovements,
                      ids : Seq(1 .. nMovements)]
    BY <1>0, <1>6 DEF NothingArrives, NoLoad
  <2>2. LogTypeOK'
    BY <1>0, <1>6, <2>1 DEF NothingArrives, LogTypeOK
  <2> QED
    BY <1>6, <2>1, <2>2 DEF NothingArrives, LogInv, Descends
<1>7. CASE LoadFails
  <2>1. load' = [at |-> "idle", below |-> NoId, ids |-> <<>>]
    BY <1>7 DEF LoadFails, NoLoad
  <2>2. LogTypeOK'
    BY <1>0, <1>7, <2>1 DEF LoadFails, LogTypeOK
  <2> QED
    BY <1>7, <2>1, <2>2 DEF LoadFails, LogInv, Descends
<1> QED
  BY <1>1, <1>2, <1>3, <1>4, <1>5, <1>6, <1>7 DEF LogNext

\* The page keeps its types, and its loads continue what is shown, for any
\* size of a page and any number of movements.
THEOREM LogTypes == LogSpec => [](LogTypeOK /\ LogInv)
<1>1. LogTypeOK /\ LogInv /\ UNCHANGED logVars => LogTypeOK' /\ LogInv'
  BY DEF logVars, LogTypeOK, LogInv, Descends
<1> QED
  BY LogInitInv, LogNextInv, <1>1, PTL DEF LogSpec

\* The page has no gap and nothing twice.
THEOREM NoMovementMissingSafe == LogSpec => []NoMovementMissing
<1>1. LogTypeOK /\ LogInv => NoMovementMissing
  BY DEF LogInv, Descends, NoMovementMissing
<1> QED
  BY LogTypes, <1>1, PTL
=============================================================================
