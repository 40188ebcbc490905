---------------------------- MODULE RecipeEditor ----------------------------
(***************************************************************************)
(* The page that edits recipes (core/ui/js/cards/recipes.js).  All of its  *)
(* handlers share one draft.  A click on a row fetches a recipe, and the   *)
(* answer replaces the draft and the form; save and delete look at the     *)
(* draft again once they have the session token, and replace it when they  *)
(* are answered.  Only with the token at hand does a click reach the       *)
(* server before anything else can happen.                                 *)
(***************************************************************************)
EXTENDS Naturals

CONSTANTS Saved,    \* recipes there are at first
          Fresh,    \* ids of recipes made on the page
          Unsaved,  \* a draft that is not on the server
          NoDraft,  \* no draft; no form
          Clicks,   \* saves and deletes under way
          MaxGets   \* bound on recipes fetched

Known == Saved \cup Fresh

ASSUME RecipeEditorAssumption ==
  /\ {Unsaved, NoDraft} \cap Known = {} /\ Unsaved # NoDraft
  /\ MaxGets \in Nat

VARIABLES
  onServer,  \* recipes the server has
  draft,     \* _draft: the id of the recipe it is of
  form,      \* the recipe whose fields and buttons are on screen
  deletable, \* the form's delete button
  gets,      \* rows that were clicked and not answered
  nGets,
  hasToken,  \* the session token is cached
  click,     \* per click: what it is about and how far it is
  crossed    \* history: the form was changed, or a button clicked, while a
             \* save or a delete was under way

editorVars == <<onServer, draft, form, deletable, gets, nGets, hasToken,
                click, crossed>>

NoClick == [does |-> "none", at |-> "none", shown |-> NoDraft, id |-> NoDraft]

BusyEditor == \E c \in Clicks : click[c] # NoClick

\* renderEditor and its siblings: the form of recipe r, with draft d.
Render(d, r) ==
  /\ draft' = d /\ form' = r
  /\ deletable' = (r \in Known)
  /\ crossed' = (crossed \/ BusyEditor)

\* Mutant: the draft is that of the row before the row is answered.
OpenRowAtOnce(r) ==
  /\ nGets < MaxGets
  /\ nGets' = nGets + 1
  /\ gets' = gets \cup {[n |-> nGets + 1, id |-> r]}
  /\ draft' = r
  /\ UNCHANGED <<onServer, form, deletable, hasToken, click, crossed>>
\* The list may still name a recipe that is gone.
OpenRow(r) ==
  /\ nGets < MaxGets
  /\ nGets' = nGets + 1
  /\ gets' = gets \cup {[n |-> nGets + 1, id |-> r]}
  /\ UNCHANGED <<onServer, draft, form, deletable, hasToken, click, crossed>>

\* What get_recipe answers with, or 404.
HasRecipe(r) == r \in onServer

RowAnswered(g) ==
  /\ gets' = gets \ {g}
  /\ \/ HasRecipe(g.id) /\ Render(g.id, g.id)
     \/ UNCHANGED <<draft, form, deletable, crossed>>
  /\ UNCHANGED <<onServer, nGets, hasToken, click>>

\* The form of a new recipe, once it has been given a name.
NewRecipe ==
  /\ Render(Unsaved, Unsaved)
  /\ UNCHANGED <<onServer, gets, nGets, hasToken, click>>

\* A save or a delete reads the draft when it has the token.
Sends(c, does, shown) ==
  click' = [click EXCEPT ![c] =
              [does |-> does, at |-> "sent", shown |-> shown, id |-> draft]]

ClickOn(c, does) ==
  /\ click[c] = NoClick /\ form # NoDraft /\ draft # NoDraft
  /\ crossed' = (crossed \/ BusyEditor)
  /\ IF hasToken THEN Sends(c, does, form)
     ELSE click' = [click EXCEPT ![c] =
                      [does |-> does, at |-> "token", shown |-> form,
                       id |-> NoDraft]]
  /\ UNCHANGED <<onServer, draft, form, gets, nGets, hasToken>>

ClickSave(c) == ClickOn(c, "save") /\ UNCHANGED deletable

\* The user has confirmed; the button is disabled until the delete ends.
ClickDelete(c) ==
  /\ deletable /\ draft # Unsaved
  /\ ClickOn(c, "delete")
  /\ deletable' = FALSE

\* The handler fails without a token; an error is shown and the form stays.
Fails(c) ==
  /\ click' = [click EXCEPT ![c] = NoClick]
  /\ deletable' = (deletable \/ click[c].does = "delete")

\* With the token, but without a draft, it fails too.
GoesOn(c) ==
  /\ click[c].at = "token"
  /\ hasToken' = TRUE
  /\ IF draft = NoDraft THEN Fails(c)
     ELSE Sends(c, click[c].does, click[c].shown) /\ UNCHANGED deletable
  /\ UNCHANGED <<onServer, draft, form, gets, nGets, crossed>>

\* A request was answered 401: the server has been started again.
TokenLost ==
  /\ hasToken' = FALSE
  /\ UNCHANGED <<onServer, draft, form, deletable, gets, nGets, click,
                 crossed>>

\* The answer to a save is the draft from now on; the form stays as it is.
RecipeSaved(c) ==
  /\ click[c].does = "save" /\ click[c].at = "sent"
  /\ \/ /\ click[c].id \in onServer
        /\ draft' = click[c].id
        /\ UNCHANGED <<onServer, form>>
     \/ /\ click[c].id = Unsaved
        /\ \E r \in Fresh \ onServer :
             /\ onServer' = onServer \cup {r}
             /\ draft' = r
             /\ form' = IF form = Unsaved THEN r ELSE form
  /\ click' = [click EXCEPT ![c] = NoClick]
  /\ UNCHANGED <<deletable, gets, nGets, hasToken, crossed>>

\* The lists are fetched again before the form goes away.
RecipeDeleted(c) ==
  /\ click[c].does = "delete" /\ click[c].at = "sent"
  /\ click[c].id \in onServer
  /\ onServer' = onServer \ {click[c].id}
  /\ click' = [click EXCEPT ![c].at = "lists"]
  /\ UNCHANGED <<draft, form, deletable, gets, nGets, hasToken, crossed>>

ListsFetched(c) ==
  /\ click[c].at = "lists"
  /\ draft' = NoDraft /\ form' = NoDraft /\ deletable' = FALSE
  /\ click' = [click EXCEPT ![c] = NoClick]
  /\ UNCHANGED <<onServer, gets, nGets, hasToken, crossed>>

ClickFails(c) ==
  /\ click[c] # NoClick
  /\ Fails(c)
  /\ UNCHANGED <<onServer, draft, form, gets, nGets, hasToken, crossed>>

EditorInit ==
  /\ onServer = Saved /\ draft = NoDraft /\ form = NoDraft
  /\ deletable = FALSE /\ gets = {} /\ nGets = 0
  /\ hasToken = TRUE /\ click = [c \in Clicks |-> NoClick] /\ crossed = FALSE

EditorNext ==
  \/ \E r \in Saved \cup onServer : OpenRow(r)
  \/ \E g \in gets : RowAnswered(g)
  \/ NewRecipe \/ TokenLost
  \/ \E c \in Clicks :
       \/ ClickSave(c) \/ ClickDelete(c) \/ GoesOn(c)
       \/ RecipeSaved(c) \/ RecipeDeleted(c) \/ ListsFetched(c)
       \/ ClickFails(c)

EditorSpec == EditorInit /\ [][EditorNext]_editorVars
-----------------------------------------------------------------------------
(* Properties *)

\* Type invariant of the page, its requests and the server's recipes.
EditorTypeOK ==
  /\ onServer \subseteq Known
  /\ {draft, form} \subseteq Known \cup {Unsaved, NoDraft}
  /\ {deletable, hasToken, crossed} \subseteq BOOLEAN
  /\ nGets \in 0 .. MaxGets /\ gets \subseteq [n : 1 .. nGets, id : Known]
  /\ click \in [Clicks -> [does : {"none", "save", "delete"},
                           at : {"none", "token", "sent", "lists"},
                           shown : Known \cup {Unsaved, NoDraft},
                           id : Known \cup {Unsaved, NoDraft}]]

\* A save or a delete is sent for the recipe whose form was clicked, unless
\* the form was changed, or another button clicked, before it was answered.
SentForWhatIsShown ==
  ~crossed => \A c \in Clicks :
                click[c].at = "sent" => click[c].id = click[c].shown
=============================================================================
