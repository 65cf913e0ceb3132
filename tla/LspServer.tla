------------------------------ MODULE LspServer ------------------------------
(***************************************************************************)
(* The language server (src/lsp): the handlers of an editor's messages and *)
(* what they share.  tower-lsp polls up to Concurrency of them in one      *)
(* task, so a handler runs on until it must wait: for one of the two locks *)
(* held across an await, or for the editor to take a message.              *)
(*                                                                         *)
(* A text is the number of the message it came with, 0 the file on disk.   *)
(***************************************************************************)
EXTENDS RwLock

CONSTANTS
    Files,          \* the files of the project
    Messages,       \* how many messages the editor sends
    Concurrency     \* handlers tower-lsp runs at once

ASSUME MessagesAssumption == Messages \in Nat
ASSUME ConcurrencyAssumption == Concurrency \in Nat \ {0}

VARIABLES
    editor,         \* file -> the text the editor shows, 0 when it is closed
    bad,            \* texts with which the project cannot be checked
    job,            \* the messages sent: [kind, file]
    pc,             \* handler -> where it is
    turn,           \* the handler being polled, 0 when none is
    lock,           \* the locks of open_documents and workspace
    open_documents, \* file -> the text the server has for it, 0 without one
    documents,      \* file -> the text of its single-file state, 0 without one
    workspace,      \* [known, texts]: the texts the workspace was built from
    snapshot,       \* handler -> the texts its check or its symbols stem from
    todo,           \* handler -> files whose diagnostics it has yet to publish
    shown           \* file -> what its diagnostics in the editor were computed from

editorVars == <<editor, bad, job>>
dataVars == <<open_documents, documents, workspace, snapshot, todo, shown>>
serverVars == <<editorVars, pc, turn, lock, dataVars>>

Handlers == 1..Messages
Kinds == {"open", "change", "close", "hover", "rename"}
Texts == [Files -> 0..Messages]
OnDisk == [f \in Files |-> 0]

Sent == DOMAIN job
InFlight == {h \in Sent : pc[h] # "done"}
Blocked(h) == Waits(lock.docs, h) \/ Waits(lock.ws, h)
FileOf(h) == job[h].file

-----------------------------------------------------------------------------
(* How handlers give way.                                                  *)

\* h goes on at p if the locks it asked for are its own, and waits otherwise.
\* What is awaited is in locks, the new value of lock.
Await(h, p, locks) ==
    /\ lock' = locks
    /\ pc' = [pc EXCEPT ![h] = p]
    /\ turn' = IF Waits(locks.docs, h) \/ Waits(locks.ws, h) THEN 0 ELSE h

\* A message to the editor goes out at once, but its sender may have to wait
\* until the channel has room again.
Say(h, p) ==
    /\ pc' = [pc EXCEPT ![h] = p]
    /\ turn' \in {h, 0}

Return(h, locks) ==
    /\ lock' = locks
    /\ pc' = [pc EXCEPT ![h] = "done"]
    /\ turn' = 0

Unlocked(l, h) == [lock EXCEPT ![l] = Release(@, h)]
Locking(locks, l, h, mode) == [locks EXCEPT ![l] = Request(@, h, mode)]
AllUnlocked(h) == [docs |-> Release(lock.docs, h), ws |-> Release(lock.ws, h)]

\* The executor polls a handler that can go on.
Poll(h) ==
    /\ turn = 0
    /\ h \in InFlight /\ ~ Blocked(h)
    /\ turn' = h
    /\ UNCHANGED <<editorVars, pc, lock, dataVars>>

-----------------------------------------------------------------------------
(* Messages arrive.                                                        *)

ServerInit ==
    /\ editor = OnDisk
    /\ bad = {}
    /\ job = <<>>
    /\ pc = [h \in Handlers |-> "unsent"]
    /\ turn = 0
    /\ lock = [docs |-> Free, ws |-> Free]
    /\ open_documents = OnDisk
    /\ documents = OnDisk
    /\ workspace = [known |-> FALSE, texts |-> OnDisk]
    /\ snapshot = [h \in Handlers |-> OnDisk]
    /\ todo = [h \in Handlers |-> {}]
    /\ shown = [f \in Files |-> [by |-> "nobody", texts |-> OnDisk]]

\* The next message, its handler created and polled for the first time.
Arrival(h, kind, f) ==
    /\ turn = 0
    /\ h = Len(job) + 1 /\ h <= Messages
    /\ Cardinality(InFlight) < Concurrency
    /\ job' = Append(job, [kind |-> kind, file |-> f])

\* did_open and did_change: update_document.
Update(h, kind, f) ==
    /\ kind \in {"open", "change"}
    /\ (kind = "open") = (editor[f] = 0)
    /\ Arrival(h, kind, f)
    /\ editor' = [editor EXCEPT ![f] = h]
    /\ bad' \in {bad, bad \cup {h}}
    /\ Await(h, "store", Locking(lock, "docs", h, "write"))
    /\ UNCHANGED dataVars

\* did_close drops the single-file state; open_documents keeps the text.
Close(h, f) ==
    /\ editor[f] # 0
    /\ Arrival(h, "close", f)
    /\ editor' = [editor EXCEPT ![f] = 0]
    /\ documents' = [documents EXCEPT ![f] = 0]
    /\ Return(h, lock)
    /\ UNCHANGED <<bad, open_documents, workspace, snapshot, todo, shown>>

\* hover stands for the requests that look once at the workspace and the open
\* documents, rename for those that look twice.
Ask(h, kind, f) ==
    /\ kind \in {"hover", "rename"}
    /\ editor[f] # 0
    /\ Arrival(h, kind, f)
    /\ Await(h, "look", Locking(lock, "ws", h, "read"))
    /\ UNCHANGED <<editor, bad, dataVars>>

-----------------------------------------------------------------------------
(* update_document.                                                        *)

Checks(texts) == \A f \in Files : texts[f] \notin bad

At(h, p) == turn = h /\ pc[h] = p

\* Asking for the workspace after giving docs back.
Store(h) ==
    /\ At(h, "store")
    /\ open_documents' = [open_documents EXCEPT ![FileOf(h)] = h]
    /\ Await(h, "find", Locking(Unlocked("docs", h), "ws", h, "read"))
    /\ UNCHANGED <<editorVars, documents, workspace, snapshot, todo, shown>>

\* Variant: a workspace that is there is taken to be up to date.
Find_NoRebuild(h) ==
    /\ At(h, "find")
    /\ IF workspace.known
       THEN Await(h, "publish", Locking(Unlocked("ws", h), "ws", h, "read"))
       ELSE Await(h, "init", Locking(Unlocked("ws", h), "docs", h, "read"))
    /\ UNCHANGED <<editorVars, dataVars>>

\* try_init_workspace: only without a workspace is there one to set up.
Find(h) ==
    /\ At(h, "find")
    /\ IF workspace.known
       THEN Await(h, "root", Locking(Unlocked("ws", h), "ws", h, "read"))
       ELSE Await(h, "init", Locking(Unlocked("ws", h), "docs", h, "read"))
    /\ UNCHANGED <<editorVars, dataVars>>

\* The check runs under the open documents' lock, which is kept while the
\* workspace's is awaited and while the failure is logged.
Init(h) ==
    /\ At(h, "init")
    /\ IF Checks(open_documents)
       THEN /\ snapshot' = [snapshot EXCEPT ![h] = open_documents]
            /\ Await(h, "adopt", Locking(lock, "ws", h, "write"))
       ELSE Say(h, "give up") /\ UNCHANGED <<lock, snapshot>>
    /\ UNCHANGED <<editorVars, open_documents, documents, workspace, todo, shown>>

Adopt(h) ==
    /\ At(h, "adopt")
    /\ workspace' = [known |-> TRUE, texts |-> snapshot[h]]
    /\ Await(h, "root", Locking(AllUnlocked(h), "ws", h, "read"))
    /\ UNCHANGED <<editorVars, open_documents, documents, snapshot, todo, shown>>

\* Variant: the guard of the workspace is not dropped.
Root_KeepsGuard(h) ==
    /\ At(h, "root")
    /\ Await(h, "clone", Locking(lock, "docs", h, "read"))
    /\ UNCHANGED <<editorVars, dataVars>>

\* rebuild_workspace reads the project's root.
Root(h) ==
    /\ At(h, "root")
    /\ Await(h, "clone", Locking(Unlocked("ws", h), "docs", h, "read"))
    /\ UNCHANGED <<editorVars, dataVars>>

\* Variant: only the message's own file is taken from the open documents.
Clone_Incremental(h) ==
    /\ At(h, "clone")
    /\ IF Checks(open_documents)
       THEN /\ snapshot' = [snapshot EXCEPT ![h] = [workspace.texts EXCEPT ![FileOf(h)] = open_documents[FileOf(h)]]]
            /\ Await(h, "replace", Locking(Unlocked("docs", h), "ws", h, "write"))
       ELSE Say(h, "fall back") /\ lock' = Unlocked("docs", h) /\ UNCHANGED snapshot
    /\ UNCHANGED <<editorVars, open_documents, documents, workspace, todo, shown>>

\* It clones the open documents, checks them with no lock held and asks for
\* the workspace at once; a failure is logged.
Clone(h) ==
    /\ At(h, "clone")
    /\ IF Checks(open_documents)
       THEN /\ snapshot' = [snapshot EXCEPT ![h] = open_documents]
            /\ Await(h, "replace", Locking(Unlocked("docs", h), "ws", h, "write"))
       ELSE Say(h, "fall back") /\ lock' = Unlocked("docs", h) /\ UNCHANGED snapshot
    /\ UNCHANGED <<editorVars, open_documents, documents, workspace, todo, shown>>

\* Variant: a workspace once set up is not replaced.
Replace_First(h) ==
    /\ At(h, "replace")
    /\ Await(h, "publish", Locking(Unlocked("ws", h), "ws", h, "read"))
    /\ UNCHANGED <<editorVars, dataVars>>

Replace(h) ==
    /\ At(h, "replace")
    /\ workspace' = [known |-> TRUE, texts |-> snapshot[h]]
    /\ Await(h, "publish", Locking(Unlocked("ws", h), "ws", h, "read"))
    /\ UNCHANGED <<editorVars, open_documents, documents, snapshot, todo, shown>>

\* Variant: only the diagnostics of the message's own file are published.
Publish_Own(h) ==
    /\ At(h, "publish")
    /\ todo' = [todo EXCEPT ![h] = {FileOf(h)}]
    /\ Await(h, "show", Locking(lock, "docs", h, "read"))
    /\ UNCHANGED <<editorVars, open_documents, documents, workspace, snapshot, shown>>

\* publish_workspace_diagnostics, under both locks.
Publish(h) ==
    /\ At(h, "publish")
    /\ todo' = [todo EXCEPT ![h] = Files]
    /\ Await(h, "show", Locking(lock, "docs", h, "read"))
    /\ UNCHANGED <<editorVars, open_documents, documents, workspace, snapshot, shown>>

Show(h, f) ==
    /\ At(h, "show")
    /\ f \in todo[h]
    /\ shown' = [shown EXCEPT ![f] = [by |-> "workspace", texts |-> workspace.texts]]
    /\ todo' = [todo EXCEPT ![h] = @ \ {f}]
    /\ Say(h, "show")
    /\ UNCHANGED <<editorVars, lock, open_documents, documents, workspace, snapshot>>

Shown(h) ==
    /\ At(h, "show")
    /\ todo[h] = {}
    /\ Return(h, AllUnlocked(h))
    /\ UNCHANGED <<editorVars, dataVars>>

\* Single-file mode: the file is checked on its own.
FallBack(h) ==
    /\ At(h, "give up") \/ At(h, "fall back")
    /\ documents' = [documents EXCEPT ![FileOf(h)] = h]
    /\ shown' = [shown EXCEPT ![FileOf(h)] = [by |-> "file", texts |-> [OnDisk EXCEPT ![FileOf(h)] = h]]]
    /\ Return(h, AllUnlocked(h))
    /\ UNCHANGED <<editorVars, open_documents, workspace, snapshot, todo>>

-----------------------------------------------------------------------------
(* Requests.                                                               *)

\* Without a workspace the single-file state answers; rename, if it knows the
\* symbol, looks for a workspace a second time.
Look(h) ==
    /\ At(h, "look")
    /\ \/ workspace.known /\ Await(h, "answer", Locking(lock, "docs", h, "read"))
       \/ ~ workspace.known /\ Return(h, AllUnlocked(h))
       \/ /\ ~ workspace.known /\ job[h].kind = "rename" /\ documents[FileOf(h)] # 0
          /\ Await(h, "look again", Locking(AllUnlocked(h), "ws", h, "read"))
    /\ UNCHANGED <<editorVars, dataVars>>

\* The symbol is looked up; rename, if there is one, takes both locks a second
\* time to collect its edits.
Answer(h) ==
    /\ At(h, "answer")
    /\ snapshot' = [snapshot EXCEPT ![h] = workspace.texts]
    /\ \/ Return(h, AllUnlocked(h))
       \/ job[h].kind = "rename" /\ Await(h, "look again", Locking(AllUnlocked(h), "ws", h, "read"))
    /\ UNCHANGED <<editorVars, open_documents, documents, workspace, todo, shown>>

\* Still without a workspace the edits are those of the one file.
LookAgain(h) ==
    /\ At(h, "look again")
    /\ IF workspace.known
       THEN Await(h, "collect", Locking(lock, "docs", h, "read"))
       ELSE Return(h, AllUnlocked(h))
    /\ UNCHANGED <<editorVars, dataVars>>

Collect(h) ==
    /\ At(h, "collect")
    /\ Return(h, AllUnlocked(h))
    /\ UNCHANGED <<editorVars, dataVars>>

-----------------------------------------------------------------------------
Arrive(h) ==
    \E f \in Files :
        \/ \E kind \in {"open", "change"} : Update(h, kind, f)
        \/ Close(h, f)
        \/ \E kind \in {"hover", "rename"} : Ask(h, kind, f)

Run(h) ==
    \/ Poll(h)
    \/ Store(h) \/ Find(h) \/ Init(h) \/ Adopt(h)
    \/ Root(h) \/ Clone(h) \/ Replace(h)
    \/ Publish(h) \/ (\E f \in Files : Show(h, f)) \/ Shown(h)
    \/ FallBack(h)
    \/ Look(h) \/ Answer(h) \/ LookAgain(h) \/ Collect(h)

ServerNext == \E h \in Handlers : Arrive(h) \/ Run(h)

ServerSpec == ServerInit /\ [][ServerNext]_serverVars

\* The executor goes on polling while a handler can run; nothing makes the
\* editor send another message.
FairServerSpec == ServerSpec /\ WF_serverVars(\E h \in Handlers : Run(h))
-----------------------------------------------------------------------------
(* Properties.                                                             *)

Rest == turn = 0 /\ InFlight = {}
Stored == {h \in Sent : job[h].kind \in {"open", "change"} /\ pc[h] # "store"}

\* Rebuilds overlap, each with a check made before it has the workspace's lock:
\* a workspace is never replaced by one built from an older text of any file.
WorkspaceNeverGoesBack ==
    [][workspace.known => \A f \in Files : workspace'.texts[f] >= workspace.texts[f]]_serverVars

\* Whatever failed or overtook what on the way, once nothing runs and every
\* text the server has can be checked, the workspace is the one of these texts.
QuietWorkspaceIsCurrent ==
    Rest /\ Stored # {} /\ Checks(open_documents) =>
        workspace = [known |-> TRUE, texts |-> open_documents]

\* While a request reads the workspace's symbols against the open text of its
\* file, the two are of one version, unless that text cannot be checked or an
\* update is still at work.
QueriesReadOneVersion ==
    \A h \in InFlight : pc[h] \in {"answer", "collect"} /\ ~ Blocked(h) =>
        \/ workspace.texts[FileOf(h)] = open_documents[FileOf(h)]
        \/ ~ Checks(open_documents)
        \/ \E u \in InFlight : job[u].kind \in {"open", "change"}

\* Where every text can be checked, no diagnostics of an older state survive in
\* any file, not even where an edit of another file has put them right.
CleanSessionSettles ==
    Rest /\ Stored # {} /\ bad = {} =>
        \A f \in Files : shown[f] = [by |-> "workspace", texts |-> open_documents]

\* try_init_workspace waits for the workspace with the open documents locked,
\* behind a reader that waits for the open documents behind a writer.
InitStuck ==
    \E i, r, w \in InFlight :
        /\ pc[i] = "adopt" /\ Waits(lock.ws, i) /\ i \in lock.docs.readers
        /\ r \in lock.ws.readers /\ Waits(lock.docs, r)
        /\ pc[w] = "store" /\ Waits(lock.docs, w)

\* The handlers always come to an end, or the server has run into that one
\* deadlock: there is no other way for them to wait for each other.
HandlersReturn == []<>(InFlight = {} \/ InitStuck)

-----------------------------------------------------------------------------
(* What comments say and the code does not do.                             *)

\* CHANGELOG.md:222, "add hover support": a hover request is answered.
HoverIsAnswered ==
    \A h \in Handlers : pc[h] = "look" ~> pc[h] = "done"
=============================================================================
