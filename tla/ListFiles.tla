----------------------------- MODULE ListFiles ------------------------------
(***************************************************************************)
(* A list the operator edits (appliance/egress_proxy.py: current_denylist, *)
(* current_allowlist and the routes /api/denylist, /api/allowlist), with   *)
(* the editors that show it: DictionaryPanel.tsx, DenylistPanel.tsx and    *)
(* makeDict of the gateway's own page (Pages).                             *)
(*                                                                         *)
(* The list lives in a file.  The gateway enforces a copy of it, and makes *)
(* a new copy when the file's mtime is not the one it has noted.  It does  *)
(* so for each request and save on the event loop, and for each GET, whose *)
(* handler is not async, on a thread of the pool: no lock orders them.     *)
(* Each write has an mtime of its own here: two within one tick of the     *)
(* file system's clock, which the code could not tell apart, are left out. *)
(***************************************************************************)
EXTENDS Naturals, Sequences

CONSTANTS
  Editors,
  PageEditors,  \* the editors that are the gateway's own page
  Terms,
  Nothing

ASSUME EditorAssumption == PageEditors \subseteq Editors
ASSUME NothingAssumption == Nothing \notin Nat   \* no mtime, no answer

Loop == "event loop"
Refreshers == Editors \cup {Loop}   \* the loop, and the thread of an editor's GET

VARIABLES
  file,      \* the list's file: its terms and its mtime
  noted,     \* the mtime the copy is thought to be of
  enforced,  \* the copy: what requests are redacted with
  astray,    \* history: the copy was made by a read that failed or was overtaken
  refresh,   \* how far each refresh is, and the mtime and terms it saw
  serving,   \* what the event loop refreshes for: a request, or an editor's save
  posts,     \* each editor's saves that are under way, in the order sent
  editor     \* what each editor shows

gateLists == <<noted, enforced, astray, refresh, serving>>
listVars == <<file, gateLists, posts, editor>>

Rest == [at |-> "rest", mtime |-> Nothing, got |-> {}]
Fresh(view, terms) ==   \* an editor that shows the list as it was sent
  [view |-> view, saved |-> terms, draft |-> terms, awaits |-> 0, sent |-> 0]
-----------------------------------------------------------------------------
(* current_denylist: stat, compare and note, read and compile, install *)

Begins(p) ==
  /\ refresh[p].at = "rest"
  /\ refresh' = [refresh EXCEPT ![p].at = "stat"]

Stat(p) ==
  /\ refresh[p].at = "stat"
  /\ refresh' = [refresh EXCEPT ![p] = [at |-> IF file.mtime = noted THEN "done" ELSE "note",
                                        mtime |-> file.mtime, got |-> {}]]
  /\ UNCHANGED <<file, noted, enforced, astray, serving, posts, editor>>

\* [mutant] A refresh that the caller has just written for trusts its mtime.
NoteTrusting(p) ==
  /\ refresh[p].at = "note"
  /\ noted' = refresh[p].mtime
  /\ refresh' = [refresh EXCEPT ![p].at = IF p = Loop THEN "done" ELSE "read"]
  /\ UNCHANGED <<file, enforced, astray, serving, posts, editor>>

\* The mtime is noted before the file is read.
Note(p) ==
  /\ refresh[p].at = "note"
  /\ noted' = refresh[p].mtime
  /\ refresh' = [refresh EXCEPT ![p].at = "read"]
  /\ UNCHANGED <<file, enforced, astray, serving, posts, editor>>

\* _read_denylist_file: a file that cannot be read is an empty list.
Read(p) ==
  /\ refresh[p].at = "read"
  /\ refresh' = [refresh EXCEPT ![p] = [at |-> "install", mtime |-> file.mtime,
                                        got |-> file.terms]]
  /\ UNCHANGED <<file, noted, enforced, astray, serving, posts, editor>>

ReadFails(p) ==
  /\ refresh[p].at = "read"
  /\ refresh' = [refresh EXCEPT ![p] = [at |-> "install", mtime |-> Nothing, got |-> {}]]
  /\ UNCHANGED <<file, noted, enforced, astray, serving, posts, editor>>

Install(p) ==
  /\ refresh[p].at = "install"
  /\ enforced' = refresh[p].got
  /\ astray' = (refresh[p].mtime # file.mtime)
  /\ refresh' = [refresh EXCEPT ![p].at = "done"]
  /\ UNCHANGED <<file, noted, serving, posts, editor>>

Refresh(p) == Stat(p) \/ Note(p) \/ Read(p) \/ Install(p)
-----------------------------------------------------------------------------
(* The event loop: requests, and POST /api/denylist *)

Ends == refresh' = [refresh EXCEPT ![Loop] = Rest] /\ serving' = Nothing

\* A request is to be redacted.
Scan ==
  /\ serving = Nothing
  /\ serving' = "request"
  /\ Begins(Loop)
  /\ UNCHANGED <<file, noted, enforced, astray, posts, editor>>

Scanned ==
  /\ serving = "request" /\ refresh[Loop].at = "done"
  /\ Ends
  /\ UNCHANGED <<file, noted, enforced, astray, posts, editor>>

Unanswered(e) == {i \in DOMAIN posts[e] : posts[e][i].answer = Nothing}
Oldest(e) == CHOOSE i \in Unanswered(e) : \A j \in Unanswered(e) : i <= j
Answered(e, a) == posts' = [posts EXCEPT ![e][Oldest(e)].answer = a]

\* The temporary file is renamed over the list; then the copy is refreshed.
ServeSave(e) ==
  /\ serving = Nothing /\ Unanswered(e) # {}
  /\ LET p == posts[e][Oldest(e)]
     IN file' = [terms |-> p.terms, mtime |-> file.mtime + 1]
  /\ serving' = e
  /\ Begins(Loop)
  /\ UNCHANGED <<noted, enforced, astray, posts, editor>>

SaveServed(e) ==
  /\ serving = e /\ refresh[Loop].at = "done"
  /\ Answered(e, "ok")
  /\ Ends
  /\ UNCHANGED <<file, noted, enforced, astray, editor>>

\* "write failed": the file is as it was.
SaveFails(e) ==
  /\ serving = Nothing /\ Unanswered(e) # {}
  /\ Answered(e, "failed")
  /\ UNCHANGED <<file, gateLists, editor>>

\* The operator edits the file by hand.
HandEdit(T) ==
  /\ file' = [terms |-> T, mtime |-> file.mtime + 1]
  /\ UNCHANGED <<gateLists, posts, editor>>

\* Only the file survives the gateway; saves under way are lost, done or not.
ListsStopped ==
  /\ noted' = Nothing /\ enforced' = {} /\ astray' = FALSE
  /\ refresh' = [p \in Refreshers |-> Rest] /\ serving' = Nothing
  /\ posts' = [e \in Editors |-> [i \in DOMAIN posts[e] |->
                 [posts[e][i] EXCEPT !.answer = IF @ = Nothing THEN "lost" ELSE @]]]
  /\ UNCHANGED <<file, editor>>
-----------------------------------------------------------------------------
(* The editors *)

\* GET /api/denylist, on a thread of its own.
Load(e) ==
  /\ editor[e].view \in {"away", "error"}
  /\ Begins(e)
  /\ editor' = [editor EXCEPT ![e].view = "loading"]
  /\ UNCHANGED <<file, noted, enforced, astray, serving, posts>>

\* After the refresh the handler reads the file again, for the answer.
Loaded(e) ==
  /\ refresh[e].at = "done"
  /\ refresh' = [refresh EXCEPT ![e] = Rest]
  /\ editor' = IF editor[e].view # "loading" THEN editor
               ELSE [editor EXCEPT ![e] = [Fresh("ready", file.terms) EXCEPT !.sent = editor[e].sent]]
  /\ UNCHANGED <<file, noted, enforced, astray, serving, posts>>

\* No answer in time, or no gateway.
LoadFails(e) ==
  /\ editor[e].view = "loading"
  /\ editor' = [editor EXCEPT ![e].view = "error"]
  /\ UNCHANGED <<file, gateLists, posts>>

Toggled(T, t) == IF t \in T THEN T \ {t} ELSE T \cup {t}
Send(e, T) == posts' = [posts EXCEPT ![e] =
                         Append(@, [n |-> editor[e].sent + 1, terms |-> T, answer |-> Nothing])]

\* A term is added or removed.  The page saves at once, whatever is under way.
EditTerm(e, t) ==
  LET T == Toggled(editor[e].draft, t)
  IN /\ editor[e].view \in {"ready", "saving"}
     /\ IF e \in PageEditors
        THEN Send(e, T) /\ editor' = [editor EXCEPT ![e].draft = T, ![e].sent = @ + 1]
        ELSE UNCHANGED posts /\ editor' = [editor EXCEPT ![e].draft = T]
     /\ UNCHANGED <<file, gateLists>>

\* The panel's Save button: the whole list, one save at a time.
SaveDraft(e) ==
  /\ e \notin PageEditors /\ editor[e].view = "ready" /\ editor[e].draft # editor[e].saved
  /\ Send(e, editor[e].draft)
  /\ editor' = [editor EXCEPT ![e].view = "saving", ![e].sent = @ + 1,
                               ![e].awaits = editor[e].sent + 1]
  /\ UNCHANGED <<file, gateLists>>

\* The panel's Revert button.
Revert(e) ==
  /\ e \notin PageEditors /\ editor[e].view = "ready" /\ editor[e].draft # editor[e].saved
  /\ editor' = [editor EXCEPT ![e].draft = editor[e].saved]
  /\ UNCHANGED <<file, gateLists, posts>>

\* jsonFetch gives up after TIMEOUT_MS; the save may still be served.
SaveTimesOut(e) ==
  /\ editor[e].view = "saving"
  /\ editor' = [editor EXCEPT ![e].view = "ready", ![e].awaits = 0]
  /\ UNCHANGED <<file, gateLists, posts>>

Awaited(e) ==
  /\ editor[e].view \in {"ready", "saving"}
  /\ e \in PageEditors \/ Head(posts[e]).n = editor[e].awaits

\* What is shown once a save is answered: the list as it was saved, whatever
\* was edited since.  After an error the page loads the list again, and the
\* panel keeps its draft; without an answer the page keeps its own.
After(e, p) ==
  CASE p.answer = "ok" -> [Fresh("ready", p.terms) EXCEPT !.sent = editor[e].sent]
    [] p.answer = "failed" /\ e \in PageEditors -> [editor[e] EXCEPT !.view = "error"]
    [] OTHER -> [editor[e] EXCEPT !.view = "ready", !.awaits = 0]

Receive(e) ==
  /\ posts[e] # <<>> /\ Head(posts[e]).answer # Nothing
  /\ posts' = [posts EXCEPT ![e] = Tail(@)]
  /\ editor' = IF Awaited(e) THEN [editor EXCEPT ![e] = After(e, Head(posts[e]))] ELSE editor
  /\ UNCHANGED <<file, gateLists>>

\* The tab is closed; what is under way stays under way.
Leave(e) ==
  /\ editor[e].view # "away"
  /\ editor' = [editor EXCEPT ![e] = [Fresh("away", {}) EXCEPT !.sent = editor[e].sent]]
  /\ UNCHANGED <<file, gateLists, posts>>
-----------------------------------------------------------------------------
ListInit ==
  /\ file = [terms |-> {}, mtime |-> 0]
  /\ noted = Nothing /\ enforced = {} /\ astray = FALSE
  /\ refresh = [p \in Refreshers |-> Rest] /\ serving = Nothing
  /\ posts = [e \in Editors |-> <<>>]
  /\ editor = [e \in Editors |-> Fresh("away", {})]
-----------------------------------------------------------------------------
\* A thread is replacing the copy, and has noted the mtime but not yet the list.
Replacing == \E e \in Editors : refresh[e].at \in {"read", "install"}

\* "Live-refreshed when either the file or the config changes": a request is
\* redacted with the list that was in the file when it asked, except where a
\* refresh on another thread overlaps it, or the last copy was made by a read
\* that failed or that a newer one overtook.
SavedIsEnforced ==
  serving # Nothing /\ refresh[Loop].at = "done" /\ refresh[Loop].mtime = file.mtime =>
    enforced = file.terms \/ astray \/ Replacing
=============================================================================
