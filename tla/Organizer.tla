----------------------------- MODULE Organizer -----------------------------
(***************************************************************************)
(* The organizer (core/organizer) and the plans it makes (core/plans and   *)
(* the plan routes of core/api/http.py).                                   *)
(*                                                                         *)
(* A plan is made from what the file system holds now and carried out by a *)
(* later request, one action after the other; an action that fails is      *)
(* noted and passed over.  The handlers run in a thread pool and share the *)
(* files and the table of plans; each reads its plan before it works and   *)
(* saves what it has read, changed, at the end.  The user may write or     *)
(* delete a file at any time.                                              *)
(***************************************************************************)
EXTENDS Naturals, FiniteSets

CONSTANTS Folders,    \* directories under the allowed roots
          Names,      \* names of files
          Normal,     \* normalize_filename
          Quarantine, \* the folder duplicates are moved to
          Starts,     \* start paths of a request, as the folders below them
          Layouts,    \* what the folders may hold at first
          UserPlans,  \* actions of the plans a client posts
          UserChanges, \* what the user may write where; NoFile: delete it
          PathOrder,  \* the paths by length, then by name
          Jobs,       \* requests that may be under way
          NoFile, NoPlan, \* nothing
          MaxServed,  \* bound on the requests served and the user's changes
          MaxSuffix,  \* bound on the n of "-dup<n>"
          MaxSeconds  \* bound on the clock

\* A name and the number of its suffix; 0 is no suffix.
Paths   == Folders \X Names \X (0 .. MaxSuffix)
PlanIds == {"dup", "rn", "user"} \X (0 .. MaxSeconds)
Kinds   == {"move", "rename", "copy", "hardlink", "delete"}
Files   == [content : Nat, age : Nat]
Actions == [kind : Kinds, src : Paths, dst : Paths]

ASSUME OrganizerAssumption ==
  /\ Normal \in [Names -> Names] /\ Quarantine \in Folders
  /\ Starts \subseteq SUBSET Folders
  /\ Layouts \subseteq [Paths -> Files \cup {NoFile}]
  /\ UserPlans \subseteq SUBSET Actions
  /\ UserChanges \subseteq Paths \X (Files \cup {NoFile})
  /\ PathOrder \in [Paths -> Nat]
  /\ \A p, q \in Paths : PathOrder[p] = PathOrder[q] => p = q
  /\ {MaxServed, MaxSuffix} \subseteq Nat /\ MaxSeconds \in Nat

\* What the quarantine holds at first are duplicates moved there before: an
\* older file of the same content is outside.
ASSUME QuarantineAssumption ==
  \A l \in Layouts : \A p \in Paths :
    p[1] = Quarantine /\ l[p] # NoFile =>
      \E k \in Paths : /\ k[1] # Quarantine /\ l[k] # NoFile
                       /\ l[k].content = l[p].content /\ l[k].age < l[p].age

VARIABLES
  fileAt,  \* what each path holds: a file, known by its content and age
  table,   \* plans.db
  second,  \* the clock, in seconds
  served,  \* requests and changes by the user so far
  job,     \* per request: what it does, with the plan it has read
  born,    \* history: the files there were at first
  carried, \* history: the actions that commits have carried out, by plan
  meddled, \* history: a commit has done more than moving duplicates
  cleared, \* history: a commit has moved duplicates
  unsure   \* history: contents of the files that the user has changed, and of
           \* those a plan could not tell apart by the ages it found

commitHistory == <<carried, meddled, cleared>>
organizerHistory == <<born, unsure, commitHistory>>
organizerVars == <<fileAt, table, second, served, job, organizerHistory>>

Idle == [at |-> "idle", id |-> NoPlan, actions |-> {}, left |-> {},
         failed |-> FALSE, tree |-> {}]

There(p) == fileAt[p] # NoFile

\* The files there may be.
Held == (born \cup {c[2] : c \in UserChanges}) \ {NoFile}

\* One more request.
Begins == served < MaxServed /\ served' = served + 1

\* save_plan: INSERT OR REPLACE.
SavePlan(id, new, actions) ==
  table' = [table EXCEPT ![id] = [status |-> new, actions |-> actions]]
-----------------------------------------------------------------------------
(* Making plans *)

\* The user writes or deletes a file.
ChangeFile(p, file) ==
  /\ Begins /\ fileAt[p] # file
  /\ fileAt' = [fileAt EXCEPT ![p] = file]
  /\ unsure' = unsure \cup {f.content : f \in {fileAt[p], file} \ {NoFile}}
  /\ UNCHANGED <<table, second, job, born, commitHistory>>

\* find_duplicates, which hashes the files below a start path, and the walk of
\* rename_plan.
Walk(h, kind, start) ==
  /\ job[h].at = "idle" /\ Begins
  /\ job' = [job EXCEPT ![h] =
       [Idle EXCEPT !.at = kind,
                    !.tree = {<<p, fileAt[p]>> :
                                p \in {q \in Paths : q[1] \in start
                                                       /\ There(q)}}]]
  /\ UNCHANGED <<fileAt, table, second, organizerHistory>>

\* Mutant: files of one size are taken for duplicates.
SameSize(f, g) == TRUE
SameContent(f, g) == f.content = g.content

\* The order of pick_keeper, by what each path holds when it is dated, after
\* the files have all been hashed; a file that is gone comes last.
Before(p, q) ==
  \/ There(p) /\ ~There(q)
  \/ There(p) /\ There(q) /\ fileAt[p].age < fileAt[q].age
  \/ /\ There(p) <=> There(q)
     /\ There(p) => fileAt[p].age = fileAt[q].age
     /\ PathOrder[p] < PathOrder[q]

\* The first of a group stays.
Duplicates(tree) ==
  {e \in tree : \E k \in tree : /\ SameContent(e[2], k[2])
                                /\ Before(k[1], e[1])}

\* History: a path no longer holds the file that was hashed, or two of the
\* same hash are as old as each other.
Unclear(tree) ==
  {e[2].content :
     e \in {d \in tree :
              /\ There(d[1])
              /\ \/ fileAt[d[1]] # d[2]
                 \/ \E k \in tree \ {d} :
                      /\ SameContent(d[2], k[2]) /\ There(k[1])
                      /\ fileAt[k[1]].age = fileAt[d[1]].age}}

\* The first name in quarantine that is free when the plan is made.  (The
\* suffix of a suffixed name is here the next number.)
FreeName(p) ==
  CHOOSE q \in Paths :
    /\ q[1] = Quarantine /\ q[2] = p[2] /\ ~There(q)
    /\ \A n \in p[3] .. q[3] - 1 : There(<<Quarantine, p[2], n>>)

Moves(tree) ==
  {[kind |-> "move", src |-> e[1], dst |-> FreeName(e[1])] :
     e \in Duplicates(tree)}

\* A name that is taken when the plan is made is left alone.
Renames(tree) ==
  {r \in {[kind |-> "rename", src |-> e[1],
           dst |-> <<e[1][1], Normal[e[1][2]], e[1][3]>>] : e \in tree} :
     r.src # r.dst /\ ~There(r.dst)}

\* The plan is saved under the second it was made in.
PlanDuplicates(h) ==
  /\ job[h].at = "dup"
  /\ \A e \in Duplicates(job[h].tree) :
       ~There(<<Quarantine, e[1][2], MaxSuffix>>)
  /\ SavePlan(<<"dup", second>>, "draft", Moves(job[h].tree))
  /\ job' = [job EXCEPT ![h] = Idle]
  /\ unsure' = unsure \cup Unclear(job[h].tree)
  /\ UNCHANGED <<fileAt, second, served, born, commitHistory>>

PlanRenames(h) ==
  /\ job[h].at = "rn"
  /\ SavePlan(<<"rn", second>>, "draft", Renames(job[h].tree))
  /\ job' = [job EXCEPT ![h] = Idle]
  /\ UNCHANGED <<fileAt, second, served, organizerHistory>>

\* POST /plans, also over a plan that has this id.
CreatePlan(actions) ==
  /\ SavePlan(<<"user", 0>>, "draft", actions)
  /\ UNCHANGED <<fileAt, second, served, job, organizerHistory>>

Tick ==
  /\ second < MaxSeconds
  /\ second' = second + 1
  /\ UNCHANGED <<fileAt, table, served, job, organizerHistory>>
-----------------------------------------------------------------------------
(* Previewing and committing a plan *)

\* get_plan, by POST /plans/{id}/preview or /commit.
ReadPlan(h, use, id) ==
  /\ job[h].at = "idle" /\ table[id] # NoPlan /\ Begins
  /\ job' = [job EXCEPT ![h] =
       [Idle EXCEPT !.at = use, !.id = id, !.actions = table[id].actions,
                    !.left = IF use = "commit" THEN table[id].actions
                             ELSE {}]]
  /\ UNCHANGED <<fileAt, table, second, organizerHistory>>

Preview(h) ==
  /\ job[h].at = "preview"
  /\ SavePlan(job[h].id, "previewed", job[h].actions)
  /\ job' = [job EXCEPT ![h] = Idle]
  /\ UNCHANGED <<fileAt, second, served, organizerHistory>>

\* What an action makes of the files.
Done(a) ==
  CASE a.kind \in {"move", "rename"} ->
         [p \in Paths |-> IF p = a.dst THEN fileAt[a.src]
                          ELSE IF p = a.src THEN NoFile ELSE fileAt[p]]
    [] a.kind \in {"copy", "hardlink"} ->
         [fileAt EXCEPT ![a.dst] = fileAt[a.src]]
    [] a.kind = "delete" -> [fileAt EXCEPT ![a.src] = NoFile]

Possible(a) ==
  /\ There(a.src) \/ a.kind = "delete"
  /\ a.kind = "hardlink" => ~There(a.dst)

\* commit_local carries out one action; a destination is replaced.
CarryOut(h, a) ==
  /\ job[h].at = "commit" /\ a \in job[h].left /\ Possible(a)
  /\ fileAt' = Done(a)
  /\ job' = [job EXCEPT ![h].left = @ \ {a}]
  /\ carried' = carried \cup {<<job[h].id, a>>}
  /\ meddled' = (meddled \/ job[h].id[1] # "dup")
  /\ cleared' = (cleared \/ job[h].id[1] # "rn")
  /\ UNCHANGED <<table, second, served, born, unsure>>

\* Mutant: a failed action does not count.
PassOver(h, a) == [job[h] EXCEPT !.left = @ \ {a}]
NoteFailure(h, a) == [job[h] EXCEPT !.left = @ \ {a}, !.failed = TRUE]

\* The action raises: out of scope, no such file, no permission.
ActionFails(h, a) ==
  /\ job[h].at = "commit" /\ a \in job[h].left
  /\ job' = [job EXCEPT ![h] = NoteFailure(h, a)]
  /\ UNCHANGED <<fileAt, table, second, served, organizerHistory>>

\* The plan that was read is saved with its new status.
CommitPlan(h) ==
  /\ job[h].at = "commit" /\ job[h].left = {}
  /\ SavePlan(job[h].id, IF job[h].failed THEN "failed" ELSE "committed",
              job[h].actions)
  /\ job' = [job EXCEPT ![h] = Idle]
  /\ UNCHANGED <<fileAt, second, served, organizerHistory>>

\* The process dies; the files and plans.db remain.
Die ==
  /\ \E h \in Jobs : job[h] # Idle
  /\ job' = [h \in Jobs |-> Idle]
  /\ UNCHANGED <<fileAt, table, second, served, organizerHistory>>
-----------------------------------------------------------------------------
OrganizerInit ==
  /\ fileAt \in Layouts
  /\ table = [id \in PlanIds |-> NoPlan]
  /\ second = 0 /\ served = 0
  /\ job = [h \in Jobs |-> Idle]
  /\ born = {fileAt[p] : p \in Paths} \ {NoFile}
  /\ carried = {} /\ meddled = FALSE /\ cleared = FALSE /\ unsure = {}

Serve(h) ==
  \/ \E kind \in {"dup", "rn"}, s \in Starts : Walk(h, kind, s)
  \/ PlanDuplicates(h) \/ PlanRenames(h)
  \/ \E use \in {"preview", "commit"}, id \in PlanIds : ReadPlan(h, use, id)
  \/ Preview(h) \/ CommitPlan(h)
  \/ \E a \in job[h].left : CarryOut(h, a) \/ ActionFails(h, a)

OrganizerNext ==
  \/ \E h \in Jobs : Serve(h)
  \/ \E actions \in UserPlans : CreatePlan(actions)
  \/ \E c \in UserChanges : ChangeFile(c[1], c[2])
  \/ Tick \/ Die

OrganizerSpec == OrganizerInit /\ [][OrganizerNext]_organizerVars
-----------------------------------------------------------------------------
(* Properties *)

Plans == [status : {"draft", "previewed", "committed", "failed"},
          actions : SUBSET Actions]

\* Type invariant of the files, the plans and the requests.
OrganizerTypeOK ==
  /\ fileAt \in [Paths -> Held \cup {NoFile}]
  /\ born \subseteq Files \ {NoFile}
  /\ table \in [PlanIds -> Plans \cup {NoPlan}]
  /\ second \in 0 .. MaxSeconds /\ served \in 0 .. MaxServed
  /\ job \in [Jobs -> [at : {"idle", "dup", "rn", "preview", "commit"},
                       id : PlanIds \cup {NoPlan}, actions : SUBSET Actions,
                       left : SUBSET Actions, failed : BOOLEAN,
                       tree : SUBSET (Paths \X Held)]]
  /\ \A h \in Jobs : job[h].left \subseteq job[h].actions
  /\ carried \subseteq PlanIds \X Actions
  /\ {meddled, cleared} \subseteq BOOLEAN /\ unsure \subseteq Nat

\* However duplicate plans are made, repeated and carried out side by side,
\* a file with each of the contents there were at first is still outside the
\* quarantine, as long as no commit did anything but move duplicates.
\* Excepted is a content of which the user has written or deleted a file, and
\* one whose files a plan could not tell apart: it dated another file than
\* the one it had hashed, or two of the same age.  A change of one content
\* leaves the others alone.  (With QuarantineAssumption: a file that is the
\* oldest of its content there would be kept, and those outside moved to it.)
DuplicatesKeepContent ==
  ~meddled =>
    \A f \in born :
      \/ f.content \in unsure
      \/ \E p \in Paths : There(p) /\ p[1] # Quarantine
                          /\ fileAt[p].content = f.content

\* A plan that says it is committed has had each of its actions carried out,
\* whatever plan had its id before and whoever else worked on it.
CommittedIsDone ==
  \A id \in PlanIds :
    table[id] # NoPlan /\ table[id].status = "committed" =>
      \A a \in table[id].actions : <<id, a>> \in carried

\* "Skip if another file already occupies the destination name": as long as
\* nothing but renames were carried out and the user changed no file, every
\* file is still there.
RenameKeepsFiles ==
  ~cleared /\ unsure = {} => \A f \in born : \E p \in Paths : fileAt[p] = f
=============================================================================
