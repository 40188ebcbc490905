--------------------------- MODULE CatalogStream ----------------------------
(***************************************************************************)
(* A stream over the folders of a provider: CatalogManager of              *)
(* core/domain/catalog.py, with the cursors of the Google Drive and of the *)
(* local provider (core/adapters/drive/provider.py, fs/provider.py), as    *)
(* the routes /catalog/open, next and close call them in a thread pool.    *)
(*                                                                         *)
(* Every call of next walks on with the one cursor of the stream, a queue  *)
(* of folders, and gives up the lock of the interpreter while a folder is  *)
(* listed.  Drive lists a folder page by page and takes it off the queue   *)
(* when it has the last one; the local provider takes it off first.  A     *)
(* page is known by its folder and number; what matters of it are the      *)
(* folders on it, and the files are left out.                              *)
(*                                                                         *)
(* At this commit the broker that the routes ask for has no catalog_open,  *)
(* so nothing builds a CatalogManager: the classes are modelled as the     *)
(* routes and the background scan are written to call them.                *)
(***************************************************************************)
EXTENDS Naturals, Sequences

CONSTANTS Callers,   \* threads that may call next
          Dirs,      \* folders
          NoDir,
          Pages,     \* per provider and folder: its pages, each a sequence
                     \* of folders
          StartDirs, \* the folders a stream begins with, in order
          MaxQueued  \* bound on entries ever put on the queue

Providers == {"drive", "local"}

\* The local provider lists a folder as one page.
ASSUME StreamAssumption ==
  /\ Pages \in [Providers -> [Dirs -> Seq(Seq(Dirs)) \ {<<>>}]]
  /\ \A f \in Dirs : Len(Pages["local"][f]) = 1
  /\ StartDirs \in Seq(Dirs) /\ NoDir \notin Dirs
  /\ MaxQueued \in Nat /\ Len(StartDirs) <= MaxQueued

VARIABLES
  provider,
  recursive,
  stream,    \* "none", "open" or "closed"
  queue,     \* entries, each a folder and a number of its own
  nQueued,
  pageToken, \* per entry: how many of its pages have been read
  caller,    \* per thread: where it is, the entry and the page it lists, and
             \* the pages it has got
  delivered, \* pages written to catalog.ndjson
  finished,  \* history: a call has answered that the walk is done
  jostled,   \* history: two calls were under way at once
  skipped    \* history: a failure has lost a page, or a folder on it

cursor     == <<queue, nQueued, pageToken>>
streamVars == <<provider, recursive, stream, cursor, caller, delivered,
                finished, jostled, skipped>>

NoEntry == [of |-> NoDir, id |-> 0]
Resting == [at |-> "idle", entry |-> NoEntry, page |-> 0, got |-> {}]
Walking(got) == [Resting EXCEPT !.at = "walking", !.got = got]

NumPages(f) == Len(Pages[provider][f])

\* The folders that are queued when the last page of f has come: those on it,
\* and not those on earlier pages.
Found(f) == IF recursive THEN Pages[provider][f][NumPages(f)] ELSE <<>>

\* Entries for a sequence of folders, after n others.
Entries(fs, n) == [i \in 1 .. Len(fs) |-> [of |-> fs[i], id |-> n + i]]
-----------------------------------------------------------------------------
(* Operations *)

OpenStream(p, r) ==
  /\ stream = "none" /\ stream' = "open"
  /\ provider' = p /\ recursive' = r
  /\ queue' = Entries(StartDirs, 0) /\ nQueued' = Len(StartDirs)
  /\ UNCHANGED <<pageToken, caller, delivered, finished, jostled, skipped>>

\* A call that is under way goes on with the cursor of a closed stream.
CloseStream ==
  /\ stream = "open" /\ stream' = "closed"
  /\ UNCHANGED <<provider, recursive, cursor, caller, delivered, finished,
                 jostled, skipped>>

CallNext(c) ==
  /\ stream = "open" /\ caller[c].at = "idle"
  /\ caller' = [caller EXCEPT ![c] = Walking({})]
  /\ jostled' = (jostled \/ \E d \in Callers \ {c} : caller[d].at # "idle")
  /\ UNCHANGED <<provider, recursive, stream, cursor, delivered, finished,
                 skipped>>

\* The call asks for the next page of the first folder.
ListFirst(c) ==
  /\ caller[c].at = "walking" /\ queue # <<>>
  /\ caller' = [caller EXCEPT ![c] =
       [at |-> "listing", entry |-> Head(queue),
        page |-> pageToken[Head(queue).id] + 1, got |-> @.got]]
  /\ queue' = IF provider = "local" THEN Tail(queue) ELSE queue
  /\ UNCHANGED <<provider, recursive, stream, nQueued, pageToken, delivered,
                 finished, jostled, skipped>>

\* Drive drops the first entry, whichever it is by now.
Popped == IF provider = "drive" THEN Tail(queue) ELSE queue

\* A page comes that is not the last one.
PageComes(c) ==
  LET e == caller[c].entry
      n == caller[c].page
  IN  /\ caller[c].at = "listing" /\ n < NumPages(e.of)
      /\ caller' = [caller EXCEPT ![c] = Walking(@.got \cup {<<e.of, n>>})]
      /\ pageToken' = [pageToken EXCEPT ![e.id] = n]
      /\ UNCHANGED <<provider, recursive, stream, queue, nQueued, delivered,
                     finished, jostled, skipped>>

\* Mutant: the folders of the last page are not queued.
QueuesNothing(c) ==
  LET e == caller[c].entry
      n == caller[c].page
  IN  /\ caller[c].at = "listing" /\ n >= NumPages(e.of)
      /\ provider = "drive" => queue # <<>>
      /\ caller' = [caller EXCEPT ![c] = Walking(@.got \cup {<<e.of, n>>})]
      /\ queue' = Popped
      /\ UNCHANGED <<provider, recursive, stream, nQueued, pageToken,
                     delivered, finished, jostled, skipped>>
\* The last page comes, and the folders on it are queued.
LastPageComes(c) ==
  LET e == caller[c].entry
      n == caller[c].page
  IN  /\ caller[c].at = "listing" /\ n >= NumPages(e.of)
      /\ provider = "drive" => queue # <<>>
      /\ nQueued + Len(Found(e.of)) <= MaxQueued
      /\ caller' = [caller EXCEPT ![c] = Walking(@.got \cup {<<e.of, n>>})]
      /\ queue' = Popped \o Entries(Found(e.of), nQueued)
      /\ nQueued' = nQueued + Len(Found(e.of))
      /\ UNCHANGED <<provider, recursive, stream, pageToken, delivered,
                     finished, jostled, skipped>>

\* An answer that is not 200, or a folder that cannot be read, counts as a
\* last page with nothing on it.
ListingRefused(c) ==
  /\ caller[c].at = "listing"
  /\ provider = "drive" => queue # <<>>
  /\ caller' = [caller EXCEPT ![c] = Walking(@.got)]
  /\ queue' = Popped
  /\ skipped' = TRUE
  /\ UNCHANGED <<provider, recursive, stream, nQueued, pageToken, delivered,
                 finished, jostled>>

\* Items enough, time out or the queue empty: what was got is written.
Deliver(c) ==
  /\ caller[c].at = "walking"
  /\ delivered' = delivered \cup caller[c].got
  /\ finished' = (finished \/ queue = <<>>)
  /\ \/ caller' = [caller EXCEPT ![c] = Resting]
     \/ queue # <<>> /\ caller' = [caller EXCEPT ![c] = Walking({})]
  /\ UNCHANGED <<provider, recursive, stream, cursor, jostled, skipped>>

\* Drive cannot be reached or has no entry to drop, or the file cannot be
\* written: the call fails, and what it had got is gone.
Raises(c) ==
  /\ \/ caller[c].at = "listing" /\ provider = "drive"
     \/ caller[c].at = "walking" /\ caller[c].got # {}
  /\ caller' = [caller EXCEPT ![c] = Resting]
  /\ skipped' = (skipped \/ caller[c].got # {})
  /\ UNCHANGED <<provider, recursive, stream, cursor, delivered, finished,
                 jostled>>
-----------------------------------------------------------------------------
StreamInit ==
  /\ provider \in Providers /\ recursive = TRUE /\ stream = "none"
  /\ queue = <<>> /\ nQueued = 0
  /\ pageToken = [i \in 1 .. MaxQueued |-> 0]
  /\ caller = [c \in Callers |-> Resting]
  /\ delivered = {}
  /\ finished = FALSE /\ jostled = FALSE /\ skipped = FALSE

StreamNext ==
  \/ \E p \in Providers, r \in BOOLEAN : OpenStream(p, r)
  \/ CloseStream
  \/ \E c \in Callers :
       \/ CallNext(c) \/ ListFirst(c) \/ PageComes(c) \/ LastPageComes(c)
       \/ ListingRefused(c) \/ Deliver(c) \/ Raises(c)

StreamSpec == StreamInit /\ [][StreamNext]_streamVars
-----------------------------------------------------------------------------
(* Properties *)

\* Type invariant of the stream, its cursor and its callers.
StreamTypeOK ==
  /\ provider \in Providers /\ recursive \in BOOLEAN
  /\ stream \in {"none", "open", "closed"}
  /\ nQueued \in 0 .. MaxQueued
  /\ queue \in Seq([of : Dirs, id : 1 .. nQueued])
  /\ pageToken \in [1 .. MaxQueued -> Nat]
  /\ caller \in [Callers ->
       [at : {"idle", "walking", "listing"},
        entry : [of : Dirs, id : 1 .. nQueued] \cup {NoEntry},
        page : Nat, got : SUBSET (Dirs \X (Nat \ {0}))]]
  /\ delivered \subseteq Dirs \X (Nat \ {0})
  /\ finished \in BOOLEAN /\ jostled \in BOOLEAN /\ skipped \in BOOLEAN

AllIn(f, S) == \A n \in 1 .. NumPages(f) : <<f, n>> \in S

Named(fs, f) == \E i \in 1 .. Len(fs) : fs[i] = f

\* Folders that the pages in S name, on whichever page of their parent.
Due(f, S) ==
  \/ Named(StartDirs, f)
  \/ \E g \in Dirs : \E n \in 1 .. NumPages(g) :
       <<g, n>> \in S /\ recursive /\ Named(Pages[provider][g][n], f)

\* The last page of a parent names it, or the stream began with it.
OnLastPage(f, S) ==
  \/ Named(StartDirs, f)
  \/ \E g \in Dirs : <<g, NumPages(g)>> \in S /\ Named(Found(g), f)

\* However many calls the walk takes, and whether the stream is closed during
\* one: when a call answers "done", no call has failed with pages in hand and
\* none overlapped another, every page of every folder that a written page
\* names has been written.  Excepted are folders of Drive that only pages
\* before the last one of a parent name: stream_next queues the folders of the
\* page that has no token for a next one, and drops them.
WalkComplete ==
  finished /\ ~jostled /\ ~skipped =>
    \A f \in Dirs :
      Due(f, delivered) =>
        \/ AllIn(f, delivered)
        \/ provider = "drive" /\ ~OnLastPage(f, delivered)
=============================================================================
