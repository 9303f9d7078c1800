--------------------------- MODULE AssistantSession ---------------------------
(***************************************************************************)
(* One conversation with the assistant: modules/assistant/service.py and   *)
(* repository.py, their routes, and what the browser is told.              *)
(*                                                                         *)
(* A turn loads the session, takes its row lock with the first UPDATE,     *)
(* stores the question, plans and runs tools, stores the answer and        *)
(* commits.  A tool that calculates a reserve commits in the middle of it. *)
(* Turns of several tabs, edits of the session and its deletion overlap.   *)
(***************************************************************************)
EXTENDS Integers, Sequences

CONSTANTS
    Turn,      \* questions that are asked, each once
    Edit,      \* PATCH requests
    NoRequest,
    Context,   \* pinned contexts
    Unpinned,  \* the question comes without a context
    Intent,    \* what an answer was understood to be about
    NoIntent

Request == Turn \cup Edit

ASSUME RequestAssumption == Turn \cap Edit = {} /\ NoRequest \notin Request
ASSUME ContextAssumption == Unpinned \notin Context
ASSUME IntentAssumption == NoIntent \notin Intent

Title == {"new", "question", "given"}
Row == [title: Title, context: Context \cup {Unpinned}, count: Nat, intent: Intent \cup {NoIntent},
        trace: Turn \cup {NoRequest}]

Message == [turn: Turn, role: {"user", "assistant"}]
Question(t) == [turn |-> t, role |-> "user"]
Answer(t) == [turn |-> t, role |-> "assistant"]

Location == {"idle", "loaded", "working", "expired", "reloaded", "answered",
             "committed", "ended"}

NewRow(title, context) ==
    [title |-> title, context |-> context, count |-> 0, intent |-> NoIntent,
     trace |-> NoRequest]
NoRow == NewRow("new", Unpinned)

\* The events of a stream, and the responses of a POST.
Event == {"thinking", "answer", "done", "error", "response", "failure"}

\* What a request holds: its form and context, the session as its ORM object has
\* it, the row and the messages it has written and not committed.
Local == [kind: {"post", "stream"}, context: Context \cup {Unpinned}, object: Row,
          draft: Row, unsaved: Seq(Message)]
Nothing == [kind |-> "post", context |-> Unpinned, object |-> NoRow, draft |-> NoRow,
            unsaved |-> <<>>]

VARIABLES
    life,      \* absent, alive or deleted
    session,   \* the committed row of the session
    messages,  \* committed messages in the order of created_at
    lock,      \* the request that holds the row lock
    pc, local, \* where each request is and what it has in memory
    told,      \* events that each turn's caller has received
    torn,      \* turns a tool has committed in the middle of (observed)
    overlap    \* some turn began while another was under way (observed)

vars == <<life, session, messages, lock, pc, local, told, torn, overlap>>

TypeOK ==
    /\ life \in {"absent", "alive", "deleted"}
    /\ session \in Row
    /\ messages \in Seq(Message)
    /\ lock \in Request \cup {NoRequest}
    /\ pc \in [Request -> Location]
    /\ local \in [Request -> Local]
    /\ told \in [Turn -> SUBSET Event]
    /\ torn \in SUBSET Turn
    /\ overlap \in BOOLEAN

Init ==
    /\ life = "absent" /\ session = NoRow
    /\ messages = <<>> /\ lock = NoRequest
    /\ pc = [r \in Request |-> "idle"]
    /\ local = [r \in Request |-> Nothing]
    /\ told = [t \in Turn |-> {}]
    /\ torn = {} /\ overlap = FALSE

-----------------------------------------------------------------------------
Goto(r, l) == pc' = [pc EXCEPT ![r] = l]
Tell(t, events) == told' = [told EXCEPT ![t] = @ \cup events]
TellFailure(t) == Tell(t, IF local[t].kind = "stream" THEN {"error"} ELSE {"failure"})

\* An UPDATE names the columns whose value is not the one the object had.
Merged(new, object, row) ==
    LET column(f) == IF new[f] # object[f] THEN new[f] ELSE row[f]
    IN  [title |-> column("title"), context |-> column("context"),
         count |-> column("count"), intent |-> column("intent"),
         trace |-> column("trace")]

\* A flush of the changed object on top of `row`, with a message to insert.
Flush(r, new, row, unsaved) ==
    local' = [local EXCEPT ![r].object = new, ![r].unsaved = unsaved,
                           ![r].draft = Merged(new, local[r].object, row)]

\* What a commit publishes, and the release of the row lock.
Publish(r) ==
    /\ session' = local[r].draft
    /\ messages' = messages \o local[r].unsaved
    /\ lock' = NoRequest
    /\ local' = [local EXCEPT ![r].unsaved = <<>>, ![r].object = NoRow, ![r].draft = NoRow]

\* Mutant: a failed turn commits what it has, as apply_upload_file does.
RollbackCommits(r) ==
    /\ messages' = messages \o local[r].unsaved
    /\ session' = session
    /\ lock' = IF lock = r THEN NoRequest ELSE lock
    /\ local' = [local EXCEPT ![r] = Nothing]
    /\ Goto(r, "ended")

\* Rollback: db.close of get_db, or the except branch of the stream.
Rollback(r) ==
    /\ UNCHANGED <<session, messages>>
    /\ lock' = IF lock = r THEN NoRequest ELSE lock
    /\ local' = [local EXCEPT ![r] = Nothing]
    /\ Goto(r, "ended")

\* The row is gone: 404, or StaleDataError of an UPDATE that matched no row.
Refused(t) ==
    /\ Rollback(t) /\ TellFailure(t)
    /\ UNCHANGED <<life, torn, overlap>>

-----------------------------------------------------------------------------
Create ==
    /\ life = "absent" /\ life' = "alive"
    /\ \E title \in {"new", "given"}, c \in Context : session' = NewRow(title, c)
    /\ UNCHANGED <<messages, lock, pc, local, told, torn, overlap>>

\* The messages are found by the cascade of the relationship, and those another
\* transaction has added since by ON DELETE CASCADE.
Delete ==
    /\ life = "alive" /\ lock = NoRequest
    /\ life' = "deleted" /\ messages' = <<>> /\ session' = NoRow
    /\ UNCHANGED <<lock, pc, local, told, torn, overlap>>

Load(r) ==
    /\ pc[r] = "idle" /\ life = "alive"
    /\ local' = [local EXCEPT ![r].object = session]
    /\ Goto(r, "loaded")
    /\ UNCHANGED <<life, session, messages, lock, told, torn>>

LoadForEdit(e) == Load(e) /\ UNCHANGED overlap

\* update_session: the commit. What is not given or not changed is not written.
CommitEdit(e) ==
    LET object == local[e].object IN
    /\ pc[e] = "loaded" /\ lock = NoRequest
    /\ \E title \in {object.title, "given"}, c \in Context :
         session' = IF life = "alive"
                    THEN Merged([object EXCEPT !.title = title, !.context = c], object, session)
                    ELSE session
    /\ local' = [local EXCEPT ![e] = Nothing]
    /\ Goto(e, "ended")
    /\ UNCHANGED <<life, messages, lock, told, torn, overlap>>

UnderWay(t) == pc[t] \notin {"idle", "ended"}

\* get_session and list_messages.
LoadForTurn(t) ==
    /\ pc[t] = "idle" /\ life = "alive"
    /\ \E kind \in {"post", "stream"}, c \in Context \cup {Unpinned} :
         local' = [local EXCEPT ![t].object = session, ![t].kind = kind,
                     ![t].context = IF c = Unpinned THEN session.context ELSE c]
    /\ Goto(t, "loaded")
    /\ overlap' = (overlap \/ \E u \in Turn : UnderWay(u))
    /\ UNCHANGED <<life, session, messages, lock, told, torn>>

\* The form of the request tells nothing apart when there is no session.
NotFound(t) == pc[t] = "idle" /\ life = "deleted" /\ Refused(t)

\* Mutant: the question is counted when the context is stored and again with it.
AskCountsTwice(t) ==
    LET object == local[t].object IN
    /\ pc[t] = "loaded" /\ lock = NoRequest /\ life = "alive"
    /\ Flush(t, [object EXCEPT !.count = @ + 2], session, <<Question(t)>>)
    /\ lock' = t /\ Goto(t, "working")
    /\ UNCHANGED <<life, session, messages, told, torn, overlap>>

\* update_session_context takes the lock, append_user_message counts from the object.
Ask(t) ==
    LET object == local[t].object
        new == [object EXCEPT !.context = local[t].context, !.count = @ + 1,
                              !.title = IF @ = "new" THEN "question" ELSE @]
    IN
    /\ pc[t] = "loaded" /\ lock = NoRequest /\ life = "alive"
    /\ Flush(t, new, session, <<Question(t)>>)
    /\ lock' = t /\ Goto(t, "working")
    /\ Tell(t, IF local[t].kind = "stream" THEN {"thinking"} ELSE {})
    /\ UNCHANGED <<life, session, messages, torn, overlap>>

\* Mutant: the question is inserted although its session is gone.
AskOfDeletedInserts(t) ==
    /\ pc[t] = "loaded" /\ lock = NoRequest /\ life = "deleted"
    /\ Flush(t, local[t].object, session, <<Question(t)>>)
    /\ lock' = t /\ Goto(t, "working")
    /\ UNCHANGED <<life, session, messages, told, torn, overlap>>

AskOfDeleted(t) ==
    pc[t] = "loaded" /\ lock = NoRequest /\ life = "deleted" /\ Refused(t)

-----------------------------------------------------------------------------
\* calculate_and_persist within a tool: its commit is one of the whole session, so
\* it publishes the question, releases the lock and expires the object.
ToolCommits(t) ==
    /\ pc[t] = "working"
    /\ Publish(t) /\ Goto(t, "expired")
    /\ torn' = torn \cup {t}
    /\ UNCHANGED <<life, told, overlap>>

\* append_assistant_message on the object as it is, on top of `row`.
StoreAnswer(t, row) ==
    LET object == local[t].object IN
    \E i \in Intent :
      Flush(t, [object EXCEPT !.context = local[t].context, !.count = @ + 1,
                              !.intent = i, !.trace = t],
            row, Append(local[t].unsaved, Answer(t)))

\* Mutant: the stream shows its answer as soon as it has one, before the commit.
AnswerShownEarly(t) ==
    /\ pc[t] = "working"
    /\ StoreAnswer(t, local[t].draft)
    /\ Goto(t, "answered")
    /\ Tell(t, IF local[t].kind = "stream" THEN {"answer"} ELSE {})
    /\ UNCHANGED <<life, session, messages, lock, torn, overlap>>

AnswerTurn(t) ==
    /\ pc[t] = "working"
    /\ StoreAnswer(t, local[t].draft)
    /\ Goto(t, "answered")
    /\ UNCHANGED <<life, session, messages, lock, told, torn, overlap>>

\* After a tool's commit the object is read again, without the lock.
Reload(t) ==
    /\ pc[t] = "expired" /\ life = "alive"
    /\ local' = [local EXCEPT ![t].object = session]
    /\ Goto(t, "reloaded")
    /\ UNCHANGED <<life, session, messages, lock, told, torn, overlap>>

AnswerLate(t) ==
    /\ pc[t] = "reloaded" /\ lock = NoRequest /\ life = "alive"
    /\ StoreAnswer(t, session)
    /\ lock' = t /\ Goto(t, "answered")
    /\ UNCHANGED <<life, session, messages, told, torn, overlap>>

AnswerOfDeleted(t) ==
    /\ life = "deleted"
    /\ pc[t] = "expired" \/ (pc[t] = "reloaded" /\ lock = NoRequest)
    /\ Refused(t)

Commit(t) ==
    /\ pc[t] = "answered"
    /\ Publish(t) /\ Goto(t, "committed")
    /\ UNCHANGED <<life, told, torn, overlap>>

\* The clarification, the tool calls and the text of a stream.  The commit has expired
\* the message whose id they carry, so the first of them reads it again.
Show(t) ==
    /\ pc[t] = "committed" /\ local[t].kind = "stream" /\ life = "alive"
    /\ Tell(t, {"answer"})
    /\ UNCHANGED <<life, session, messages, lock, pc, local, torn, overlap>>

\* The response of the POST, which reads the session again; or `done`, whose result
\* was built before the commit.
Deliver(t) ==
    /\ pc[t] = "committed"
    /\ local[t].kind = "post" => life = "alive"
    /\ Tell(t, IF local[t].kind = "stream" THEN {"done"} ELSE {"response"})
    /\ Rollback(t)
    /\ UNCHANGED <<life, torn, overlap>>

\* What either kind reads after its commit is gone or cannot be read: the caller is
\* told of a failure although the answer is stored.
ResultFails(t) ==
    /\ pc[t] = "committed"
    /\ TellFailure(t) /\ Rollback(t)
    /\ UNCHANGED <<life, torn, overlap>>

\* Planning, a statement of a tool or of the turn raises.
Fail(t) ==
    /\ pc[t] \in {"loaded", "working", "expired", "reloaded", "answered"}
    /\ Rollback(t) /\ TellFailure(t)
    /\ UNCHANGED <<life, torn, overlap>>

\* The browser goes away or the API process dies: nothing more is told.
Leave(t) ==
    /\ UnderWay(t)
    /\ Rollback(t)
    /\ UNCHANGED <<life, told, torn, overlap>>

Step(t) ==
    \/ LoadForTurn(t) \/ NotFound(t) \/ Ask(t) \/ AskOfDeleted(t)
    \/ ToolCommits(t) \/ AnswerTurn(t)
    \/ Reload(t) \/ AnswerLate(t) \/ AnswerOfDeleted(t)
    \/ Commit(t) \/ Show(t) \/ Deliver(t) \/ ResultFails(t) \/ Fail(t) \/ Leave(t)

Next ==
    \/ Create \/ Delete
    \/ \E e \in Edit : LoadForEdit(e) \/ CommitEdit(e)
    \/ \E t \in Turn : Step(t)

Spec == Init /\ [][Next]_vars

-----------------------------------------------------------------------------
\* The row lock belongs to the request that has something uncommitted, and to
\* nobody once a turn has failed, ended or been left by its browser.
LockHeldOnlyAtWork ==
    \A r \in Request : lock = r <=> pc[r] \in {"working", "answered"}

At(i, m) == i \in DOMAIN messages /\ messages[i] = m

\* A question is followed by its own answer at once and an answer follows its own
\* question, unless a tool has committed in the middle of that turn; then the
\* question may stay alone and others may come between, but the order remains.
TurnsStayTogether ==
    \A t \in Turn, i \in DOMAIN messages :
      /\ messages[i] = Question(t) /\ t \notin torn => At(i + 1, Answer(t))
      /\ messages[i] = Answer(t) =>
           IF t \in torn THEN \E j \in 1..(i - 1) : messages[j] = Question(t)
                         ELSE At(i - 1, Question(t))

\* What the session row says of its conversation: message_count never exceeds the
\* messages there are, and falls behind them only once a turn has begun while another
\* was under way; latest_trace_id is the trace of the last answer in the conversation,
\* even then.
SessionRowIsCurrent ==
    life = "alive" =>
      /\ session.count <= Len(messages)
      /\ overlap \/ session.count = Len(messages)
      /\ \A i \in DOMAIN messages :
           messages[i].role = "assistant" /\ (\A j \in DOMAIN messages :
                                                j > i => messages[j].role = "user")
           => session.trace = messages[i].turn

\* No message outlives its session, whatever was under way when it was deleted.
NothingSurvivesDeletion == life = "deleted" => messages = <<>>

Stored(t) == \E i \in DOMAIN messages : messages[i] = Answer(t)

\* Whoever saw any part of an answer, its end or the response of a POST finds the
\* answer in the conversation, even when a failure or a lost connection followed.
CallerIsToldTheTruth ==
    life = "alive" =>
      \A t \in Turn : told[t] \cap {"answer", "done", "response"} # {} => Stored(t)

\* A turn that ends before its commit, by a failure or without its browser, leaves no
\* answer.  What a caller is told of as an error after the commit is stored all the same.
UnfinishedTurnsLeaveNoAnswer ==
    [][\A t \in Turn :
         pc'[t] = "ended" /\ pc[t] \notin {"committed", "ended"} => ~Stored(t)']_vars
===============================================================================
