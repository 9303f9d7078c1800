------------------------ MODULE AssistantSessionProofs ------------------------
(***************************************************************************)
(* Turns of a conversation stay together, whoever else is asking, editing  *)
(* or deleting it, for any number of turns and edits.                      *)
(***************************************************************************)
EXTENDS AssistantSession, SequenceTheorems, TLAPS

\* The lock is only taken while the session exists; before it exists nobody works.
Lives ==
    /\ lock # NoRequest => life = "alive"
    /\ life = "absent" => \A r \in Request : pc[r] = "idle"
    /\ life # "alive" => messages = <<>>

Silent(t) == \A i \in DOMAIN messages : messages[i].turn # t
Asked(t) == \E i \in DOMAIN messages : messages[i] = Question(t)
Unanswered(t) == \A i \in DOMAIN messages : messages[i] # Answer(t)

\* What a turn has stored and what it has still to store, stage by stage.
StageOf(t) ==
    /\ pc[t] \in {"idle", "loaded"} => t \notin torn /\ Silent(t)
    /\ pc[t] = "working" =>
         t \notin torn /\ Silent(t) /\ local[t].unsaved = <<Question(t)>>
    /\ pc[t] \in {"expired", "reloaded"} =>
         /\ t \in torn /\ Unanswered(t) /\ local[t].unsaved = <<>>
         /\ life = "alive" => Asked(t)
    /\ pc[t] = "answered" =>
         IF t \in torn THEN /\ Unanswered(t) /\ Asked(t)
                            /\ local[t].unsaved = <<Answer(t)>>
                       ELSE /\ Silent(t)
                            /\ local[t].unsaved = <<Question(t), Answer(t)>>
    /\ pc[t] = "committed" /\ life = "alive" =>
         \E i \in DOMAIN messages : messages[i] = Answer(t)

Stages == \A t \in Turn : StageOf(t)

IInv == TypeOK /\ LockHeldOnlyAtWork /\ Lives /\ Stages /\ TurnsStayTogether

-----------------------------------------------------------------------------
LEMMA NothingIsLocal == Nothing \in Local /\ NoRow \in Row
BY DEF Nothing, Local, NoRow, NewRow, Row, Title

LEMMA MergedIsRow ==
    ASSUME NEW a \in Row, NEW b \in Row, NEW c \in Row
    PROVE  Merged(a, b, c) \in Row
BY DEF Merged, Row

LEMMA RowIsRecord ==
    ASSUME NEW o \in Row, NEW title \in Title, NEW c \in Context \cup {Unpinned},
           NEW n \in Nat, NEW i \in Intent \cup {NoIntent}, NEW t \in Turn \cup {NoRequest}
    PROVE  [o EXCEPT !.title = title, !.context = c, !.count = n, !.intent = i,
                     !.trace = t] \in Row
BY DEF Row

LEMMA MessagesOf == \A t \in Turn : Question(t) \in Message /\ Answer(t) \in Message
                                    /\ Question(t) # Answer(t)
                                    /\ Question(t).turn = t /\ Answer(t).turn = t
BY DEF Question, Answer, Message

LEMMA TwoMessages ==
    ASSUME NEW q \in Message, NEW a \in Message
    PROVE  Append(<<q>>, a) = <<q, a>>
<1>1. <<q>> \in Seq(Message) /\ Len(<<q>>) = 1 /\ <<q, a>> \in Seq(Message)
      /\ Len(<<q, a>>) = 2
  OBVIOUS
<1>2. Append(<<q>>, a) \in Seq(Message) /\ Len(Append(<<q>>, a)) = 2
  BY <1>1
<1>3. \A i \in 1..2 : Append(<<q>>, a)[i] = <<q, a>>[i]
  BY <1>1
<1> QED
  BY <1>1, <1>2, <1>3, SeqEqual

LEMMA InitEstablishes == Init => IInv
<1> SUFFICES ASSUME Init PROVE IInv
  OBVIOUS
<1>1. TypeOK
  <2>1. messages \in Seq(Message) /\ told \in [Turn -> SUBSET Event]
    BY DEF Init
  <2>2. local \in [Request -> Local] /\ pc \in [Request -> Location] /\ session \in Row
    BY NothingIsLocal DEF Init, Location
  <2> QED
    BY <2>1, <2>2 DEF Init, TypeOK
<1>2. LockHeldOnlyAtWork /\ Lives
  BY RequestAssumption DEF Init, LockHeldOnlyAtWork, Lives
<1>3. Stages
  <2>1. ASSUME NEW t \in Turn PROVE pc[t] = "idle" /\ t \notin torn /\ Silent(t)
    BY DEF Init, Request, Silent
  <2> QED
    BY <2>1 DEF Stages, StageOf
<1>4. TurnsStayTogether
  BY DEF Init, TurnsStayTogether
<1> QED
  BY <1>1, <1>2, <1>3, <1>4 DEF IInv

-----------------------------------------------------------------------------
\* What most steps are: one request moves on, and no message is published.
Moves(r, l) ==
    /\ UNCHANGED <<messages, life>>
    /\ Goto(r, l)
    /\ local' \in [Request -> Local]
    /\ \A q \in Request \ {r} : local'[q] = local[q]

LEMMA MoveStages ==
    ASSUME IInv, NEW t \in Turn, NEW l \in Location, Moves(t, l), UNCHANGED torn,
           StageOf(t)'
    PROVE  Stages' /\ TurnsStayTogether'
<1> USE DEF IInv, Moves, Goto, Request
<1>1. ASSUME NEW u \in Turn, u # t
      PROVE  StageOf(u)'
  <2>1. pc'[u] = pc[u] /\ local'[u] = local[u]
    BY <1>1 DEF TypeOK
  <2>2. StageOf(u)
    BY DEF Stages
  <2> QED
    BY <2>1, <2>2 DEF StageOf, Silent, Asked, Unanswered
<1>2. TurnsStayTogether'
  BY DEF TurnsStayTogether, At
<1> QED
  BY <1>1, <1>2 DEF Stages

\* A request that ends without publishing anything gives the lock back.
LEMMA RollbackPreserves ==
    ASSUME IInv, NEW t \in Turn, Rollback(t), UNCHANGED <<life, torn>>, TypeOK',
           pc[t] = "idle" => life # "absent"
    PROVE  IInv'
<1> USE DEF IInv, Rollback
<1>1. Moves(t, "ended")
  BY DEF Moves, TypeOK, Request
<1>2. Stages' /\ TurnsStayTogether'
  <2>1. StageOf(t)'
    BY <1>1 DEF StageOf, Moves, Goto, TypeOK, Request
  <2> QED
    BY <1>1, <2>1, MoveStages DEF Location
<1>3. LockHeldOnlyAtWork'
  BY RequestAssumption DEF LockHeldOnlyAtWork, TypeOK, Goto, Request
<1>4. Lives'
  BY DEF Lives, TypeOK, Goto, Request
<1> QED
  BY <1>2, <1>3, <1>4

LEMMA RollbackTypes ==
    ASSUME TypeOK, NEW t \in Turn, Rollback(t), UNCHANGED <<life, torn, overlap>>,
           told' \in [Turn -> SUBSET Event]
    PROVE  TypeOK'
BY NothingIsLocal DEF TypeOK, Rollback, Goto, Location, Request

LEMMA TellTypes ==
    ASSUME TypeOK, NEW t \in Turn, NEW e \in SUBSET Event, Tell(t, e)
    PROVE  told' \in [Turn -> SUBSET Event]
BY DEF TypeOK, Tell

LEMMA TellFailureTypes ==
    ASSUME TypeOK, NEW t \in Turn, TellFailure(t)
    PROVE  told' \in [Turn -> SUBSET Event]
BY TellTypes DEF TellFailure, Event

LEMMA EndPreserves ==
    ASSUME IInv, NEW t \in Turn,
           NotFound(t) \/ AskOfDeleted(t) \/ AnswerOfDeleted(t) \/ Deliver(t)
             \/ ResultFails(t) \/ Fail(t) \/ Leave(t)
    PROVE  IInv'
<1>1. Rollback(t) /\ UNCHANGED <<life, torn, overlap>>
  BY DEF NotFound, AskOfDeleted, AnswerOfDeleted, Refused, Deliver, ResultFails, Fail, Leave
<1>2. told' \in [Turn -> SUBSET Event]
  <2>1. CASE Leave(t)
    BY <2>1 DEF Leave, IInv, TypeOK
  <2>2. CASE Deliver(t)
    BY <2>2, TellTypes DEF Deliver, IInv, Event
  <2>3. CASE TellFailure(t)
    BY <2>3, TellFailureTypes DEF IInv
  <2> QED
    BY <2>1, <2>2, <2>3
    DEF NotFound, AskOfDeleted, AnswerOfDeleted, Refused, ResultFails, Fail
<1>3. pc[t] = "idle" => life # "absent"
  BY DEF NotFound, AskOfDeleted, AnswerOfDeleted, Deliver, ResultFails, Fail, Leave, UnderWay
<1>4. TypeOK'
  BY <1>1, <1>2, RollbackTypes DEF IInv
<1> QED
  BY <1>1, <1>3, <1>4, RollbackPreserves

-----------------------------------------------------------------------------
LEMMA CreatePreserves == ASSUME IInv, Create PROVE IInv'
<1> USE DEF IInv, Create
<1>1. TypeOK'
  BY DEF TypeOK, NewRow, Row, Title
<1>2. \A r \in Request : pc[r] = "idle"
  BY DEF Lives
<1>3. LockHeldOnlyAtWork' /\ Lives'
  BY DEF LockHeldOnlyAtWork, Lives
<1>4. Stages'
  BY <1>2 DEF Stages, StageOf, Silent, Asked, Unanswered, Request
<1>5. TurnsStayTogether'
  BY DEF TurnsStayTogether, At
<1> QED
  BY <1>1, <1>3, <1>4, <1>5

LEMMA DeletePreserves == ASSUME IInv, Delete PROVE IInv'
<1> USE DEF IInv, Delete
<1>1. TypeOK'
  <2>1. messages' \in Seq(Message)
    OBVIOUS
  <2> QED
    BY <2>1, NothingIsLocal DEF TypeOK
<1>2. LockHeldOnlyAtWork' /\ Lives'
  BY DEF LockHeldOnlyAtWork, Lives
<1>3. Stages'
  <2> SUFFICES ASSUME NEW t \in Turn PROVE StageOf(t)'
    BY DEF Stages
  <2>1. messages' = <<>> /\ life' = "deleted"
    OBVIOUS
  <2>2. Silent(t)' /\ Unanswered(t)'
    BY <2>1 DEF Silent, Unanswered
  <2>3. pc[t] \notin {"working", "answered"}
    BY RequestAssumption DEF LockHeldOnlyAtWork, Request
  <2> QED
    BY <2>1, <2>2, <2>3 DEF Stages, StageOf
<1>4. TurnsStayTogether'
  BY DEF TurnsStayTogether
<1> QED
  BY <1>1, <1>2, <1>3, <1>4

LEMMA EditPreserves ==
    ASSUME IInv, NEW e \in Edit, LoadForEdit(e) \/ CommitEdit(e)
    PROVE  IInv'
<1> USE DEF IInv
<1>0. e \in Request /\ e \notin Turn
  BY RequestAssumption DEF Request
<1>1. /\ UNCHANGED <<messages, life, lock, told, torn, overlap>>
      /\ pc' = [pc EXCEPT ![e] = IF LoadForEdit(e) THEN "loaded" ELSE "ended"]
      /\ pc[e] \in {"idle", "loaded"} /\ (pc[e] = "idle" => life = "alive")
      /\ \A r \in Request \ {e} : local'[r] = local[r]
  <2>1. CASE LoadForEdit(e)
    BY <1>0, <2>1 DEF LoadForEdit, Load, Goto, TypeOK
  <2>2. CASE CommitEdit(e)
    <3>1. ~LoadForEdit(e)
      BY <2>2 DEF LoadForEdit, Load, CommitEdit
    <3> QED
      BY <1>0, <2>2, <3>1 DEF CommitEdit, Goto, TypeOK
  <2> QED
    BY <2>1, <2>2
<1>2. TypeOK'
  <2>1. CASE LoadForEdit(e)
    <3>1. local' \in [Request -> Local]
      BY <2>1 DEF LoadForEdit, Load, TypeOK, Local
    <3> QED
      BY <1>0, <1>1, <2>1, <3>1 DEF LoadForEdit, Load, TypeOK, Location
  <2>2. CASE CommitEdit(e)
    <3>1. local' \in [Request -> Local] /\ local[e].object \in Row
      BY <1>0, <2>2, NothingIsLocal DEF CommitEdit, TypeOK, Local
    <3>2. ASSUME NEW title \in {local[e].object.title, "given"}, NEW c \in Context
          PROVE  [local[e].object EXCEPT !.title = title, !.context = c] \in Row
      BY <3>1 DEF Row, Title
    <3>3. session' \in Row
      <4>1. PICK title \in {local[e].object.title, "given"}, c \in Context :
              session' = IF life = "alive"
                         THEN Merged([local[e].object EXCEPT !.title = title, !.context = c],
                                     local[e].object, session)
                         ELSE session
        BY <2>2 DEF CommitEdit
      <4>2. session \in Row
        BY DEF TypeOK
      <4> QED
        BY <3>1, <3>2, <4>1, <4>2, MergedIsRow
    <3> QED
      BY <1>0, <1>1, <3>1, <3>3 DEF TypeOK, Location
  <2> QED
    BY <2>1, <2>2
<1>3. LockHeldOnlyAtWork' /\ Lives'
  BY <1>0, <1>1 DEF LockHeldOnlyAtWork, Lives, TypeOK
<1>4. Stages'
  <2> SUFFICES ASSUME NEW t \in Turn PROVE StageOf(t)'
    BY DEF Stages
  <2>1. pc'[t] = pc[t] /\ local'[t] = local[t]
    BY <1>0, <1>1 DEF Request, TypeOK
  <2> QED
    BY <1>1, <2>1 DEF Stages, StageOf, Silent, Asked, Unanswered
<1>5. TurnsStayTogether'
  BY <1>1 DEF TurnsStayTogether, At
<1> QED
  BY <1>2, <1>3, <1>4, <1>5

-----------------------------------------------------------------------------
LEMMA LoadPreserves == ASSUME IInv, NEW t \in Turn, LoadForTurn(t) PROVE IInv'
<1> USE DEF IInv
<1>1. TypeOK'
  <2>1. PICK kind \in {"post", "stream"}, c \in Context \cup {Unpinned} :
          local' = [local EXCEPT ![t].object = session, ![t].kind = kind,
                      ![t].context = IF c = Unpinned THEN session.context ELSE c]
    BY DEF LoadForTurn
  <2>2. local[t] \in Local /\ session \in Row /\ local \in [Request -> Local]
    BY DEF TypeOK, Request
  <2> DEFINE mine == [local[t] EXCEPT !.object = session, !.kind = kind,
                        !.context = IF c = Unpinned THEN session.context ELSE c]
  <2>4. mine \in Local
    BY <2>2 DEF Local, Row
  <2>5. local' = [local EXCEPT ![t] = mine]
    BY <2>1
  <2>6. local' \in [Request -> Local]
    BY <2>2, <2>4, <2>5
  <2>3. overlap' \in BOOLEAN
    BY DEF LoadForTurn
  <2> QED
    BY <2>6, <2>3 DEF LoadForTurn, TypeOK, Goto, Location
<1>2. Moves(t, "loaded")
  BY <1>1 DEF LoadForTurn, Moves, TypeOK
<1>3. Stages' /\ TurnsStayTogether'
  <2>1. StageOf(t)'
    BY <1>2 DEF LoadForTurn, Stages, StageOf, Moves, Goto, TypeOK, Request, Silent
  <2> QED
    BY <1>2, <2>1, MoveStages DEF LoadForTurn, Location
<1>4. LockHeldOnlyAtWork' /\ Lives'
  BY DEF LoadForTurn, LockHeldOnlyAtWork, Lives, TypeOK, Goto, Request
<1> QED
  BY <1>1, <1>3, <1>4

\* A flush changes the memory of its request only, and keeps its type.
LEMMA FlushTypes ==
    ASSUME TypeOK, NEW t \in Turn, NEW new \in Row, NEW row \in Row,
           NEW unsaved \in Seq(Message), Flush(t, new, row, unsaved)
    PROVE  /\ local' \in [Request -> Local]
           /\ local'[t].unsaved = unsaved
           /\ \A q \in Request \ {t} : local'[q] = local[q]
<1> DEFINE mine == [local[t] EXCEPT !.object = new, !.unsaved = unsaved,
                                    !.draft = Merged(new, local[t].object, row)]
<1>1. local[t] \in Local /\ local \in [Request -> Local] /\ local[t].object \in Row
  BY DEF TypeOK, Request, Local
<1>2. Merged(new, local[t].object, row) \in Row
  BY <1>1, MergedIsRow
<1>3. mine \in Local /\ mine.unsaved = unsaved
  BY <1>1, <1>2 DEF Local
<1>4. local' = [local EXCEPT ![t] = mine]
  BY DEF Flush
<1> QED
  BY <1>1, <1>3, <1>4 DEF Request

LEMMA AskPreserves == ASSUME IInv, NEW t \in Turn, Ask(t) PROVE IInv'
<1> USE DEF IInv
<1> DEFINE object == local[t].object
           new == [object EXCEPT !.context = local[t].context, !.count = @ + 1,
                                 !.title = IF @ = "new" THEN "question" ELSE @]
<1>1. new \in Row /\ session \in Row /\ <<Question(t)>> \in Seq(Message)
  <2>1. object \in Row /\ local[t].context \in Context \cup {Unpinned}
    BY DEF TypeOK, Request, Local
  <2> DEFINE title == IF object.title = "new" THEN "question" ELSE object.title
  <2>2. object.count + 1 \in Nat /\ title \in Title
    BY <2>1 DEF Row, Title
  <2>3. new = [object EXCEPT !.title = title,
                             !.context = local[t].context, !.count = object.count + 1,
                             !.intent = object.intent, !.trace = object.trace]
    BY <2>1 DEF Row
  <2>4. object.intent \in Intent \cup {NoIntent} /\ object.trace \in Turn \cup {NoRequest}
    BY <2>1 DEF Row
  <2>5. new \in Row
    <3> HIDE DEF title, object, new
    <3> QED
      BY <2>1, <2>2, <2>3, <2>4, RowIsRecord
  <2> QED
    BY <2>5, MessagesOf DEF TypeOK
<1>2. /\ local' \in [Request -> Local] /\ local'[t].unsaved = <<Question(t)>>
      /\ \A q \in Request \ {t} : local'[q] = local[q]
  BY <1>1, FlushTypes DEF Ask
<1>3. TypeOK'
  <2>1. told' \in [Turn -> SUBSET Event]
    BY TellTypes DEF Ask, Event
  <2> QED
    BY <1>2, <2>1 DEF Ask, TypeOK, Goto, Location, Request
<1>4. Moves(t, "working")
  BY <1>2 DEF Ask, Moves
<1>5. Stages' /\ TurnsStayTogether'
  <2>1. StageOf(t)'
    BY <1>2, <1>4 DEF Ask, Stages, StageOf, Moves, Goto, TypeOK, Request, Silent
  <2> QED
    BY <1>4, <2>1, MoveStages DEF Ask, Location
<1>6. LockHeldOnlyAtWork' /\ Lives'
  BY RequestAssumption DEF Ask, LockHeldOnlyAtWork, Lives, TypeOK, Goto, Request
<1> QED
  BY <1>3, <1>5, <1>6

\* Storing the answer on top of `row`, in memory.
LEMMA StoreAnswerTypes ==
    ASSUME TypeOK, NEW t \in Turn, NEW row \in Row, StoreAnswer(t, row)
    PROVE  /\ local' \in [Request -> Local]
           /\ local'[t].unsaved = Append(local[t].unsaved, Answer(t))
           /\ \A q \in Request \ {t} : local'[q] = local[q]
<1> DEFINE object == local[t].object
           new(i) == [object EXCEPT !.context = local[t].context, !.count = @ + 1,
                                    !.intent = i, !.trace = t]
<1>1. PICK i \in Intent : Flush(t, new(i), row, Append(local[t].unsaved, Answer(t)))
  BY DEF StoreAnswer
<1>2. object \in Row /\ local[t].context \in Context \cup {Unpinned}
      /\ local[t].unsaved \in Seq(Message)
  BY DEF TypeOK, Request, Local
<1>3. new(i) \in Row
  <2>1. object.count + 1 \in Nat /\ object.title \in Title
    BY <1>2 DEF Row
  <2>2. new(i) = [object EXCEPT !.title = object.title, !.context = local[t].context,
                                !.count = object.count + 1, !.intent = i, !.trace = t]
    BY <1>2 DEF Row
  <2> QED
    BY <1>2, <2>1, <2>2, RowIsRecord
<1>4. Append(local[t].unsaved, Answer(t)) \in Seq(Message)
  BY <1>2, MessagesOf
<1> HIDE DEF new
<1> QED
  BY <1>1, <1>3, <1>4, FlushTypes

LEMMA AnswerPreserves ==
    ASSUME IInv, NEW t \in Turn, AnswerTurn(t) \/ AnswerLate(t)
    PROVE  IInv'
<1> USE DEF IInv
<1>1. /\ local' \in [Request -> Local]
      /\ local'[t].unsaved = Append(local[t].unsaved, Answer(t))
      /\ \A q \in Request \ {t} : local'[q] = local[q]
  <2>1. session \in Row /\ local[t].draft \in Row
    BY DEF TypeOK, Request, Local
  <2> QED
    BY <2>1, StoreAnswerTypes DEF AnswerTurn, AnswerLate
<1>2. /\ Moves(t, "answered") /\ UNCHANGED <<session, told, torn, overlap>>
      /\ lock' = t /\ life = "alive" /\ (lock = t \/ lock = NoRequest)
      /\ pc[t] \in {"working", "reloaded"}
  BY <1>1, RequestAssumption
  DEF AnswerTurn, AnswerLate, Moves, LockHeldOnlyAtWork, Lives, Request
<1>3. TypeOK'
  BY <1>1, <1>2 DEF TypeOK, Moves, Goto, Location, Request
<1>4. Stages' /\ TurnsStayTogether'
  <2>1. StageOf(t)
    BY DEF Stages
  <2>2. StageOf(t)'
    <3>1. CASE pc[t] = "working"
      <4>1. local'[t].unsaved = <<Question(t), Answer(t)>>
        <5>1. local[t].unsaved = <<Question(t)>>
          BY <2>1, <3>1 DEF StageOf
        <5> QED
          BY <1>1, <5>1, TwoMessages, MessagesOf
      <4> QED
        BY <1>2, <2>1, <3>1, <4>1 DEF StageOf, Moves, Goto, TypeOK, Request, Silent
    <3>2. CASE pc[t] = "reloaded"
      <4>1. local'[t].unsaved = <<Answer(t)>>
        <5>1. local[t].unsaved = <<>>
          BY <2>1, <3>2 DEF StageOf
        <5> QED
          BY <1>1, <5>1
      <4> QED
        BY <1>2, <2>1, <3>2, <4>1
        DEF StageOf, Moves, Goto, TypeOK, Request, Asked, Unanswered
    <3> QED
      BY <1>2, <3>1, <3>2
  <2> QED
    BY <1>2, <2>2, MoveStages DEF Location
<1>5. LockHeldOnlyAtWork' /\ Lives'
  BY <1>2, RequestAssumption DEF LockHeldOnlyAtWork, Lives, TypeOK, Moves, Goto, Request
<1> QED
  BY <1>3, <1>4, <1>5

LEMMA ReloadPreserves == ASSUME IInv, NEW t \in Turn, Reload(t) PROVE IInv'
<1> USE DEF IInv
<1>1. local' \in [Request -> Local] /\ local'[t].unsaved = local[t].unsaved
      /\ \A q \in Request \ {t} : local'[q] = local[q]
  BY DEF Reload, TypeOK, Local, Request
<1>2. Moves(t, "reloaded")
  BY <1>1 DEF Reload, Moves
<1>3. TypeOK'
  BY <1>1 DEF Reload, TypeOK, Goto, Location
<1>4. Stages' /\ TurnsStayTogether'
  <2>1. StageOf(t)'
    BY <1>1 DEF Reload, Stages, StageOf, Goto, TypeOK, Request, Asked, Unanswered
  <2> QED
    BY <1>2, <2>1, MoveStages DEF Reload, Location
<1>5. LockHeldOnlyAtWork' /\ Lives'
  BY DEF Reload, LockHeldOnlyAtWork, Lives, TypeOK, Goto, Request
<1> QED
  BY <1>3, <1>4, <1>5

-----------------------------------------------------------------------------
\* The committed messages of a publication: the old ones, then the turn's own.
LEMMA Published ==
    ASSUME IInv, NEW t \in Turn, messages' = messages \o local[t].unsaved
    PROVE  /\ messages' \in Seq(Message)
           /\ DOMAIN messages = 1..Len(messages) /\ Len(messages) \in Nat
           /\ DOMAIN messages' = 1..(Len(messages) + Len(local[t].unsaved))
           /\ \A i \in DOMAIN messages : i \in DOMAIN messages' /\ messages'[i] = messages[i]
           /\ \A i \in DOMAIN messages' \ DOMAIN messages :
                /\ i - Len(messages) \in DOMAIN local[t].unsaved
                /\ messages'[i] = local[t].unsaved[i - Len(messages)]
           /\ \A j \in DOMAIN local[t].unsaved :
                /\ Len(messages) + j \in DOMAIN messages'
                /\ messages'[Len(messages) + j] = local[t].unsaved[j]
<1> DEFINE own == local[t].unsaved
<1>1. messages \in Seq(Message) /\ own \in Seq(Message)
  BY DEF IInv, TypeOK, Request, Local
<1>2. /\ Len(messages) \in Nat /\ Len(own) \in Nat
      /\ DOMAIN messages = 1..Len(messages) /\ DOMAIN own = 1..Len(own)
  BY <1>1, LenProperties
<1>3. /\ messages' \in Seq(Message) /\ Len(messages') = Len(messages) + Len(own)
      /\ \A i \in 1..(Len(messages) + Len(own)) :
           messages'[i] = IF i <= Len(messages) THEN messages[i] ELSE own[i - Len(messages)]
  BY <1>1, ConcatProperties
<1>4. DOMAIN messages' = 1..(Len(messages) + Len(own))
  BY <1>3, LenProperties
<1> HIDE DEF own
<1>5. \A i \in DOMAIN messages : i \in DOMAIN messages' /\ messages'[i] = messages[i]
  BY <1>2, <1>3, <1>4
<1>6. \A i \in DOMAIN messages' \ DOMAIN messages :
        i - Len(messages) \in DOMAIN own /\ messages'[i] = own[i - Len(messages)]
  BY <1>2, <1>3, <1>4
<1>7. \A j \in DOMAIN own :
        /\ Len(messages) + j \in DOMAIN messages'
        /\ messages'[Len(messages) + j] = own[j]
  <2> SUFFICES ASSUME NEW j \in DOMAIN own
               PROVE  /\ Len(messages) + j \in DOMAIN messages'
                      /\ messages'[Len(messages) + j] = own[j]
    OBVIOUS
  <2>1. j \in 1..Len(own) /\ (Len(messages) + j) - Len(messages) = j
    BY <1>2
  <2> QED
    BY <1>2, <1>3, <1>4, <2>1
<1> QED
  BY <1>2, <1>3, <1>4, <1>5, <1>6, <1>7 DEF own

LEMMA PublishTypes ==
    ASSUME IInv, NEW t \in Turn, Publish(t), NEW l \in Location, Goto(t, l),
           torn' \in SUBSET Turn, UNCHANGED <<life, told, overlap>>
    PROVE  /\ TypeOK'
           /\ local'[t].unsaved = <<>>
           /\ \A q \in Request \ {t} : local'[q] = local[q] /\ pc'[q] = pc[q]
           /\ pc'[t] = l
<1> USE DEF IInv
<1>1. local[t] \in Local /\ local \in [Request -> Local] /\ t \in Request
      /\ local[t].draft \in Row
  BY DEF TypeOK, Request, Local
<1> DEFINE mine == [local[t] EXCEPT !.unsaved = <<>>, !.object = NoRow, !.draft = NoRow]
<1>2. mine \in Local /\ mine.unsaved = <<>>
  <2>1. <<>> \in Seq(Message) /\ NoRow \in Row
    BY NothingIsLocal
  <2> QED
    BY <1>1, <2>1 DEF Local
<1>3. local' = [local EXCEPT ![t] = mine]
  BY <1>1 DEF Publish, Local
<1> HIDE DEF mine
<1>4. local' \in [Request -> Local] /\ local'[t].unsaved = <<>>
      /\ \A q \in Request \ {t} : local'[q] = local[q]
  BY <1>1, <1>2, <1>3
<1>5. messages' \in Seq(Message)
  BY Published DEF Publish
<1>6. pc' \in [Request -> Location] /\ pc'[t] = l /\ \A q \in Request \ {t} : pc'[q] = pc[q]
  BY <1>1 DEF TypeOK, Goto
<1> QED
  BY <1>1, <1>4, <1>5, <1>6 DEF TypeOK, Publish

\* The messages of the other turns keep their neighbours.
LEMMA OthersStayTogether ==
    ASSUME IInv, NEW t \in Turn, NEW u \in Turn, u # t,
           messages' = messages \o local[t].unsaved,
           \A j \in DOMAIN local[t].unsaved : local[t].unsaved[j].turn = t,
           u \in torn' <=> u \in torn,
           NEW i \in DOMAIN messages'
    PROVE  /\ messages'[i] = Question(u) /\ u \notin torn' => At(i + 1, Answer(u))'
           /\ messages'[i] = Answer(u) =>
                IF u \in torn' THEN \E j \in 1..(i - 1) : messages'[j] = Question(u)
                               ELSE At(i - 1, Question(u))'
<1> SUFFICES ASSUME messages'[i].turn = u
             PROVE  /\ messages'[i] = Question(u) /\ u \notin torn' => At(i + 1, Answer(u))'
                    /\ messages'[i] = Answer(u) =>
                         IF u \in torn' THEN \E j \in 1..(i - 1) : messages'[j] = Question(u)
                                        ELSE At(i - 1, Question(u))'
  BY MessagesOf
<1>1. i \in DOMAIN messages /\ messages'[i] = messages[i]
  BY Published
<1>2. /\ messages[i] = Question(u) /\ u \notin torn => At(i + 1, Answer(u))
      /\ messages[i] = Answer(u) =>
           IF u \in torn THEN \E j \in 1..(i - 1) : messages[j] = Question(u)
                         ELSE At(i - 1, Question(u))
  BY <1>1 DEF IInv, TurnsStayTogether
<1>3. \A k : k \in DOMAIN messages => k \in DOMAIN messages' /\ messages'[k] = messages[k]
  BY Published
<1>4. 1..(i - 1) \subseteq DOMAIN messages
  BY <1>1, Published
<1> QED
  BY <1>1, <1>2, <1>3, <1>4 DEF At

\* What other turns have stored and have still to store is what it was.
LEMMA OthersKeepTheirStage ==
    ASSUME IInv, NEW t \in Turn, NEW u \in Turn, u # t,
           messages' = messages \o local[t].unsaved,
           \A j \in DOMAIN local[t].unsaved : local[t].unsaved[j].turn = t,
           u \in torn' <=> u \in torn, life' = life,
           local'[u] = local[u], pc'[u] = pc[u]
    PROVE  StageOf(u)'
<1>1. Silent(u) => Silent(u)'
  <2> SUFFICES ASSUME Silent(u), NEW i \in DOMAIN messages' PROVE messages'[i].turn # u
    BY DEF Silent
  <2>1. CASE i \in DOMAIN messages
    BY <2>1, Published DEF Silent
  <2>2. CASE i \notin DOMAIN messages
    BY <2>2, Published
  <2> QED
    BY <2>1, <2>2
<1>2. Unanswered(u) => Unanswered(u)'
  <2> SUFFICES ASSUME Unanswered(u), NEW i \in DOMAIN messages' PROVE messages'[i] # Answer(u)
    BY DEF Unanswered
  <2>1. CASE i \in DOMAIN messages
    BY <2>1, Published DEF Unanswered
  <2>2. CASE i \notin DOMAIN messages
    <3>1. messages'[i].turn = t
      BY <2>2, Published
    <3> QED
      BY <3>1, MessagesOf
  <2> QED
    BY <2>1, <2>2
<1>3. \A m : (\E i \in DOMAIN messages : messages[i] = m)
             => \E i \in DOMAIN messages' : messages'[i] = m
  BY Published
<1>4. Asked(u) => Asked(u)'
  BY <1>3 DEF Asked
<1>5. StageOf(u)
  BY DEF IInv, Stages
<1> QED
  BY <1>1, <1>2, <1>3, <1>4, <1>5 DEF StageOf

LEMMA ToolPreserves == ASSUME IInv, NEW t \in Turn, ToolCommits(t) PROVE IInv'
<1> USE DEF IInv
<1> DEFINE n == Len(messages)
<1>1. /\ Publish(t) /\ Goto(t, "expired") /\ pc[t] = "working" /\ torn' = torn \cup {t}
      /\ UNCHANGED <<life, told, overlap>> /\ messages' = messages \o local[t].unsaved
  BY DEF ToolCommits, Publish
<1>2. t \notin torn /\ Silent(t) /\ local[t].unsaved = <<Question(t)>>
  BY <1>1 DEF Stages, StageOf
<1>3. /\ TypeOK' /\ local'[t].unsaved = <<>> /\ pc'[t] = "expired"
      /\ \A q \in Request \ {t} : local'[q] = local[q] /\ pc'[q] = pc[q]
  <2>1. torn' \in SUBSET Turn /\ "expired" \in Location
    BY <1>1 DEF TypeOK, Location
  <2> QED
    BY <1>1, <2>1, PublishTypes
<1>4. life = "alive" /\ lock = t
  BY <1>1, RequestAssumption DEF LockHeldOnlyAtWork, Lives, Request
<1>5. /\ n \in Nat /\ DOMAIN messages = 1..n /\ DOMAIN messages' = 1..(n + 1)
      /\ messages'[n + 1] = Question(t)
      /\ \A i \in 1..n : messages'[i] = messages[i]
  <2>1. Len(local[t].unsaved) = 1 /\ DOMAIN local[t].unsaved = 1..1
        /\ local[t].unsaved[1] = Question(t)
    BY <1>2
  <2>2. /\ n \in Nat /\ DOMAIN messages = 1..n
        /\ DOMAIN messages' = 1..(n + Len(local[t].unsaved))
        /\ \A i \in DOMAIN messages : messages'[i] = messages[i]
        /\ \A j \in DOMAIN local[t].unsaved : messages'[n + j] = local[t].unsaved[j]
    BY <1>1, Published
  <2> QED
    BY <2>1, <2>2
<1>6. \A j \in DOMAIN local[t].unsaved : local[t].unsaved[j].turn = t
  BY <1>2, MessagesOf
<1>7. LockHeldOnlyAtWork' /\ Lives'
  BY <1>1, <1>3, <1>4, RequestAssumption DEF LockHeldOnlyAtWork, Lives, Publish, Request
<1>8. \A i \in DOMAIN messages' : messages'[i] # Answer(t)
  BY <1>2, <1>5, MessagesOf DEF Silent
<1>9. Stages'
  <2>1. StageOf(t)'
    <3>1. Unanswered(t)'
      BY <1>8 DEF Unanswered
    <3>2. Asked(t)'
      BY <1>5 DEF Asked
    <3> QED
      BY <1>1, <1>3, <3>1, <3>2 DEF StageOf
  <2>2. ASSUME NEW u \in Turn, u # t PROVE StageOf(u)'
    <3>1. (u \in torn' <=> u \in torn) /\ local'[u] = local[u] /\ pc'[u] = pc[u]
          /\ life' = life
      BY <1>1, <1>3, <2>2 DEF Request
    <3> QED
      BY <1>1, <1>6, <2>2, <3>1, OthersKeepTheirStage
  <2> QED
    BY <2>1, <2>2 DEF Stages
<1>10. TurnsStayTogether'
  <2> SUFFICES
        ASSUME NEW u \in Turn, NEW i \in DOMAIN messages'
        PROVE  /\ messages'[i] = Question(u) /\ u \notin torn' => At(i + 1, Answer(u))'
               /\ messages'[i] = Answer(u) =>
                    IF u \in torn' THEN \E j \in 1..(i - 1) : messages'[j] = Question(u)
                                   ELSE At(i - 1, Question(u))'
    BY DEF TurnsStayTogether, At
  <2>1. CASE u = t
    BY <1>1, <1>8, <2>1
  <2>2. CASE u # t
    BY <1>1, <1>6, <2>2, OthersStayTogether
  <2> QED
    BY <2>1, <2>2
<1> QED
  BY <1>3, <1>7, <1>9, <1>10

LEMMA CommitPreserves == ASSUME IInv, NEW t \in Turn, Commit(t) PROVE IInv'
<1> USE DEF IInv
<1> DEFINE n == Len(messages)
<1>1. /\ Publish(t) /\ Goto(t, "committed") /\ pc[t] = "answered"
      /\ UNCHANGED <<life, told, torn, overlap>> /\ messages' = messages \o local[t].unsaved
  BY DEF Commit, Publish
<1>2. IF t \in torn THEN Unanswered(t) /\ Asked(t) /\ local[t].unsaved = <<Answer(t)>>
                    ELSE Silent(t) /\ local[t].unsaved = <<Question(t), Answer(t)>>
  BY <1>1 DEF Stages, StageOf
<1>3. /\ TypeOK' /\ pc'[t] = "committed"
      /\ \A q \in Request \ {t} : local'[q] = local[q] /\ pc'[q] = pc[q]
  <2>1. torn' \in SUBSET Turn /\ "committed" \in Location
    BY <1>1 DEF TypeOK, Location
  <2> QED
    BY <1>1, <2>1, PublishTypes
<1>4. life = "alive" /\ lock = t
  BY <1>1, RequestAssumption DEF LockHeldOnlyAtWork, Lives, Request
<1>5. \A j \in DOMAIN local[t].unsaved : local[t].unsaved[j].turn = t
  <2>1. CASE t \in torn
    BY <1>2, <2>1, MessagesOf
  <2>2. CASE t \notin torn
    BY <1>2, <2>2, MessagesOf
  <2> QED
    BY <2>1, <2>2
<1>6. LockHeldOnlyAtWork' /\ Lives'
  BY <1>1, <1>3, <1>4, RequestAssumption DEF LockHeldOnlyAtWork, Lives, Publish, Request
<1>7. n \in Nat /\ DOMAIN messages = 1..n /\ \A i \in 1..n : messages'[i] = messages[i]
  BY <1>1, Published
<1>8. ASSUME NEW u \in Turn, u # t
      PROVE  StageOf(u)'
  <2>1. local'[u] = local[u] /\ pc'[u] = pc[u]
    BY <1>3, <1>8 DEF Request
  <2> QED
    BY <1>1, <1>5, <1>8, <2>1, OthersKeepTheirStage
<1>9. SUFFICES
        /\ \E i \in DOMAIN messages' : messages'[i] = Answer(t)
        /\ \A i \in DOMAIN messages' :
             /\ messages'[i] = Question(t) /\ t \notin torn => At(i + 1, Answer(t))'
             /\ messages'[i] = Answer(t) =>
                  IF t \in torn THEN \E j \in 1..(i - 1) : messages'[j] = Question(t)
                                ELSE At(i - 1, Question(t))'
  <2>1. StageOf(t)'
    BY <1>3, <1>9 DEF StageOf
  <2>2. ASSUME NEW u \in Turn, u # t, NEW i \in DOMAIN messages'
        PROVE  /\ messages'[i] = Question(u) /\ u \notin torn' => At(i + 1, Answer(u))'
               /\ messages'[i] = Answer(u) =>
                    IF u \in torn' THEN \E j \in 1..(i - 1) : messages'[j] = Question(u)
                                   ELSE At(i - 1, Question(u))'
    BY <1>1, <1>5, <2>2, OthersStayTogether
  <2>3. TurnsStayTogether'
    BY <1>1, <1>9, <2>2 DEF TurnsStayTogether, At
  <2> QED
    BY <1>3, <1>6, <1>8, <2>1, <2>3 DEF Stages
<1>10. CASE t \in torn
  <2>1. DOMAIN messages' = 1..(n + 1) /\ messages'[n + 1] = Answer(t)
    <3>1. Len(local[t].unsaved) = 1 /\ DOMAIN local[t].unsaved = 1..1
          /\ local[t].unsaved[1] = Answer(t)
      BY <1>2, <1>10
    <3>2. /\ DOMAIN messages' = 1..(n + Len(local[t].unsaved))
          /\ \A j \in DOMAIN local[t].unsaved : messages'[n + j] = local[t].unsaved[j]
      BY <1>1, Published
    <3> QED
      BY <3>1, <3>2
  <2>2. \E i \in DOMAIN messages' : messages'[i] = Answer(t)
    BY <1>7, <2>1
  <2>3. ASSUME NEW i \in DOMAIN messages', messages'[i] = Answer(t)
        PROVE  \E j \in 1..(i - 1) : messages'[j] = Question(t)
    <3>1. i = n + 1
      BY <1>2, <1>7, <1>10, <2>1, <2>3 DEF Unanswered
    <3>2. PICK j \in 1..n : messages[j] = Question(t)
      BY <1>2, <1>7, <1>10 DEF Asked
    <3> QED
      BY <1>7, <3>1, <3>2
  <2> QED
    BY <1>10, <2>2, <2>3
<1>11. CASE t \notin torn
  <2>1. /\ DOMAIN messages' = 1..(n + 2)
        /\ messages'[n + 1] = Question(t) /\ messages'[n + 2] = Answer(t)
    <3>1. Len(local[t].unsaved) = 2 /\ DOMAIN local[t].unsaved = 1..2
          /\ local[t].unsaved[1] = Question(t) /\ local[t].unsaved[2] = Answer(t)
      BY <1>2, <1>11
    <3>2. /\ DOMAIN messages' = 1..(n + Len(local[t].unsaved))
          /\ \A j \in DOMAIN local[t].unsaved : messages'[n + j] = local[t].unsaved[j]
      BY <1>1, Published
    <3> QED
      BY <3>1, <3>2
  <2>2. \A i \in 1..n : messages'[i] # Question(t) /\ messages'[i] # Answer(t)
    BY <1>2, <1>7, <1>11, MessagesOf DEF Silent
  <2>3. ASSUME NEW i \in DOMAIN messages'
        PROVE  /\ messages'[i] = Question(t) => At(i + 1, Answer(t))'
               /\ messages'[i] = Answer(t) => At(i - 1, Question(t))'
    <3>1. i \in 1..n \/ i = n + 1 \/ i = n + 2
      BY <1>7, <2>1
    <3>2. CASE i \in 1..n
      BY <2>2, <3>2
    <3>3. CASE i = n + 1
      <4>1. i + 1 = n + 2 /\ n + 2 \in DOMAIN messages'
        BY <1>7, <2>1, <3>3
      <4> QED
        BY <2>1, <3>3, <4>1, MessagesOf DEF At
    <3>4. CASE i = n + 2
      <4>1. i - 1 = n + 1 /\ n + 1 \in DOMAIN messages'
        BY <1>7, <2>1, <3>4
      <4> QED
        BY <2>1, <3>4, <4>1, MessagesOf DEF At
    <3> QED
      BY <3>1, <3>2, <3>3, <3>4
  <2>4. \E i \in DOMAIN messages' : messages'[i] = Answer(t)
    BY <1>7, <2>1
  <2> QED
    BY <1>11, <2>3, <2>4
<1> QED
  BY <1>10, <1>11

\* What a stream shows of its stored answer is told and changes nothing else.
LEMMA ShowPreserves == ASSUME IInv, NEW t \in Turn, Show(t) PROVE IInv'
<1>1. told' \in [Turn -> SUBSET Event]
  BY TellTypes DEF Show, IInv, Event
<1>2. UNCHANGED <<life, session, messages, lock, pc, local, torn, overlap>>
  BY DEF Show
<1> QED
  BY <1>1, <1>2 DEF IInv, TypeOK, LockHeldOnlyAtWork, Lives, Stages, StageOf, Silent,
                    Asked, Unanswered, TurnsStayTogether, At

-----------------------------------------------------------------------------
LEMMA NextPreserves == IInv /\ [Next]_vars => IInv'
<1> SUFFICES ASSUME IInv, [Next]_vars PROVE IInv'
  OBVIOUS
<1>1. CASE Create
  BY <1>1, CreatePreserves
<1>2. CASE Delete
  BY <1>2, DeletePreserves
<1>3. ASSUME NEW e \in Edit, LoadForEdit(e) \/ CommitEdit(e) PROVE IInv'
  BY <1>3, EditPreserves
<1>4. ASSUME NEW t \in Turn, Step(t) PROVE IInv'
  <2>1. CASE LoadForTurn(t)
    BY <2>1, LoadPreserves
  <2>2. CASE Ask(t)
    BY <2>2, AskPreserves
  <2>3. CASE ToolCommits(t)
    BY <2>3, ToolPreserves
  <2>4. CASE AnswerTurn(t) \/ AnswerLate(t)
    BY <2>4, AnswerPreserves
  <2>5. CASE Reload(t)
    BY <2>5, ReloadPreserves
  <2>6. CASE Commit(t)
    BY <2>6, CommitPreserves
  <2>7. CASE NotFound(t) \/ AskOfDeleted(t) \/ AnswerOfDeleted(t) \/ Deliver(t)
               \/ ResultFails(t) \/ Fail(t) \/ Leave(t)
    BY <2>7, EndPreserves
  <2>8. CASE Show(t)
    BY <2>8, ShowPreserves
  <2> QED
    BY <1>4, <2>1, <2>2, <2>3, <2>4, <2>5, <2>6, <2>7, <2>8 DEF Step
<1>5. CASE UNCHANGED vars
  BY <1>5 DEF vars, IInv, TypeOK, LockHeldOnlyAtWork, Lives, Stages, StageOf, Silent,
              Asked, Unanswered, TurnsStayTogether, At
<1> QED
  BY <1>1, <1>2, <1>3, <1>4, <1>5 DEF Next

\* The inductive invariant holds of every reachable state.
THEOREM Safety == Spec => []IInv
<1> QED
  BY InitEstablishes, NextPreserves, PTL DEF Spec

\* The session row, the messages and what every request has in memory keep their
\* types, for any number of questions and edits.
THEOREM TypeCorrect == Spec => []TypeOK
<1>1. IInv => TypeOK
  BY DEF IInv
<1> QED
  BY <1>1, Safety, PTL

\* The row lock of the session belongs to exactly the request that has written and
\* not committed: no failure, disconnection or tool commit leaves it behind.
THEOREM LockIsReleased == Spec => []LockHeldOnlyAtWork
<1>1. IInv => LockHeldOnlyAtWork
  BY DEF IInv
<1> QED
  BY <1>1, Safety, PTL

\* Questions and answers of overlapping turns do not mix in the committed history,
\* except where a tool's own commit has let another turn in.
THEOREM TurnsAreKeptTogether == Spec => []TurnsStayTogether
<1>1. IInv => TurnsStayTogether
  BY DEF IInv
<1> QED
  BY <1>1, Safety, PTL

\* A turn that was under way when its session was deleted leaves no message behind.
THEOREM NothingOutlivesSession == Spec => []NothingSurvivesDeletion
<1>1. IInv => NothingSurvivesDeletion
  BY DEF IInv, Lives, NothingSurvivesDeletion
<1> QED
  BY <1>1, Safety, PTL

-----------------------------------------------------------------------------
\* What a caller was told, against what is stored.
ToldOf(t) ==
    /\ life = "absent" => told[t] = {}
    /\ life = "alive" => (told[t] \cap {"answer", "done", "response"} # {} => Stored(t))

TInv == IInv /\ \A t \in Turn : ToldOf(t)

\* A turn that has not committed its answer has none among the messages.
LEMMA NotYetAnswered ==
    ASSUME IInv, NEW t \in Turn,
           pc[t] \in {"idle", "loaded", "working", "expired", "reloaded", "answered"}
    PROVE  Unanswered(t)
<1>1. Silent(t) => Unanswered(t)
  BY MessagesOf DEF Silent, Unanswered
<1> QED
  BY <1>1 DEF IInv, Stages, StageOf

\* A step of another request can neither remove an answer nor store this one.
LEMMA ToldOfOthers ==
    ASSUME TInv, NEW t \in Turn, NEW u \in Turn, u # t, Step(t)
    PROVE  ToldOf(u)'
<1> USE DEF TInv
<1>1. life' = life /\ told'[u] = told[u]
  BY DEF Step, LoadForTurn, NotFound, Ask, AskOfDeleted, ToolCommits, AnswerTurn, Reload,
     AnswerLate, AnswerOfDeleted, Commit, Show, Deliver, ResultFails, Fail, Leave, Refused,
     Rollback, Goto, Tell, TellFailure, IInv, TypeOK, Request
<1>2. CASE messages' = messages
  BY <1>1, <1>2 DEF ToldOf, Stored
<1>3. CASE messages' = messages \o local[t].unsaved /\ pc[t] \in {"working", "answered"}
  <2>1. Stored(u) => Stored(u)'
    <3>1. \A i \in DOMAIN messages : i \in DOMAIN messages' /\ messages'[i] = messages[i]
      BY <1>3, Published
    <3> QED
      BY <3>1 DEF Stored
  <2> QED
    BY <1>1, <2>1 DEF ToldOf
<1> QED
  BY <1>2, <1>3 DEF Step, LoadForTurn, NotFound, Ask, AskOfDeleted, ToolCommits, AnswerTurn,
     Reload, AnswerLate, AnswerOfDeleted, Commit, Show, Deliver, ResultFails, Fail, Leave,
     Refused, Rollback, Publish

LEMMA ToldOfSelf ==
    ASSUME TInv, NEW t \in Turn, Step(t)
    PROVE  ToldOf(t)'
<1> USE DEF TInv
<1>0. life' = life /\ pc[t] # "ended" /\ told \in [Turn -> SUBSET Event]
  BY DEF Step, LoadForTurn, NotFound, Ask, AskOfDeleted, ToolCommits, AnswerTurn, Reload,
     AnswerLate, AnswerOfDeleted, Commit, Show, Deliver, ResultFails, Fail, Leave, Refused,
     UnderWay, IInv, TypeOK
<1>1. life = "absent" => pc[t] = "idle"
  BY DEF IInv, Lives, Request
<1>2. CASE LoadForTurn(t) \/ Ask(t) \/ AnswerTurn(t) \/ Reload(t) \/ AnswerLate(t) \/ Leave(t)
  <2>1. messages' = messages /\ (told'[t] = told[t] \/ told'[t] = told[t] \cup {"thinking"})
        /\ life # "absent"
    BY <1>0, <1>1, <1>2
    DEF LoadForTurn, Ask, AnswerTurn, Reload, AnswerLate, Leave, Rollback, Tell, UnderWay
  <2> QED
    BY <1>0, <2>1 DEF ToldOf, Stored
<1>3. CASE ToolCommits(t) \/ Commit(t)
  <2>1. messages' = messages \o local[t].unsaved /\ told' = told /\ life # "absent"
    BY <1>1, <1>3 DEF ToolCommits, Commit, Publish
  <2>2. Stored(t) => Stored(t)'
    <3>1. \A i \in DOMAIN messages : i \in DOMAIN messages' /\ messages'[i] = messages[i]
      BY <2>1, Published
    <3> QED
      BY <3>1 DEF Stored
  <2> QED
    BY <1>0, <2>1, <2>2 DEF ToldOf
<1>4. CASE NotFound(t) \/ AskOfDeleted(t) \/ AnswerOfDeleted(t)
  BY <1>0, <1>4 DEF NotFound, AskOfDeleted, AnswerOfDeleted, ToldOf
<1>5. CASE Fail(t)
  <2>1. messages' = messages /\ life # "absent"
    BY <1>1, <1>5 DEF Fail, Rollback
  <2>2. told'[t] \subseteq told[t] \cup {"error", "failure"}
    BY <1>0, <1>5 DEF Fail, TellFailure, Tell
  <2> QED
    BY <1>0, <2>1, <2>2 DEF ToldOf, Stored
<1>6. CASE Show(t) \/ Deliver(t) \/ ResultFails(t)
  <2>1. life = "alive" => Stored(t)
    BY <1>6 DEF Show, Deliver, ResultFails, IInv, Stages, StageOf, Stored
  <2>2. messages' = messages /\ life # "absent"
    BY <1>1, <1>6 DEF Show, Deliver, ResultFails, Rollback
  <2>3. told'[t] \subseteq told[t] \cup {"answer", "done", "response", "error", "failure"}
    BY <1>0, <1>6 DEF Show, Deliver, ResultFails, TellFailure, Tell
  <2> QED
    BY <1>0, <2>1, <2>2, <2>3 DEF ToldOf, Stored
<1> QED
  BY <1>2, <1>3, <1>4, <1>5, <1>6 DEF Step

LEMMA TruthPreserved == TInv /\ [Next]_vars => TInv'
<1> SUFFICES ASSUME TInv, [Next]_vars PROVE TInv'
  OBVIOUS
<1> USE DEF TInv
<1>1. IInv'
  BY NextPreserves
<1>2. ASSUME NEW u \in Turn PROVE ToldOf(u)'
  <2>1. CASE Create
    BY <2>1 DEF Create, ToldOf, Stored
  <2>2. CASE Delete
    BY <2>2 DEF Delete, ToldOf
  <2>3. ASSUME NEW e \in Edit, LoadForEdit(e) \/ CommitEdit(e) PROVE ToldOf(u)'
    <3>1. UNCHANGED <<life, messages, told>>
      BY <2>3 DEF LoadForEdit, Load, CommitEdit
    <3> QED
      BY <3>1 DEF ToldOf, Stored
  <2>4. ASSUME NEW t \in Turn, Step(t) PROVE ToldOf(u)'
    BY <2>4, ToldOfSelf, ToldOfOthers
  <2>5. CASE UNCHANGED vars
    BY <2>5 DEF vars, ToldOf, Stored
  <2> QED
    BY <2>1, <2>2, <2>3, <2>4, <2>5 DEF Next
<1> QED
  BY <1>1, <1>2

\* Whoever saw any part of an answer, its end or the response of a POST finds the
\* answer stored, however turns, edits, failures and deletion overlap.
THEOREM CallersAreToldTheTruth == Spec => []CallerIsToldTheTruth
<1>1. Init => TInv
  BY InitEstablishes DEF TInv, ToldOf, Init
<1>2. TInv => CallerIsToldTheTruth
  BY DEF TInv, ToldOf, CallerIsToldTheTruth
<1> QED
  BY <1>1, <1>2, TruthPreserved, PTL DEF Spec

\* A turn that ends before its commit leaves no answer, whatever it had flushed and
\* whichever tools have committed within it.
LEMMA EndsWithoutAnswer ==
    ASSUME IInv, NEW t \in Turn, Next, pc'[t] = "ended", pc[t] \notin {"committed", "ended"}
    PROVE  ~Stored(t)'
<1>1. pc[t] \in {"idle", "loaded", "working", "expired", "reloaded", "answered"}
  BY DEF IInv, TypeOK, Location, Request
<1>2. Unanswered(t)
  BY <1>1, NotYetAnswered
<1>3. messages' = messages \/ messages' = <<>>
  <2>1. CASE Create \/ Delete
    BY <2>1 DEF Create, Delete
  <2>2. CASE \E e \in Edit : LoadForEdit(e) \/ CommitEdit(e)
    BY <2>2 DEF LoadForEdit, Load, CommitEdit
  <2>3. ASSUME NEW u \in Turn, Step(u) PROVE messages' = messages
    <3>1. CASE ToolCommits(u) \/ Commit(u)
      <4>1. pc'[t] \in {pc[t], "expired", "committed"}
        BY <3>1 DEF ToolCommits, Commit, Goto, IInv, TypeOK, Request
      <4> QED
        BY <1>1, <4>1
    <3>2. CASE ~(ToolCommits(u) \/ Commit(u))
      BY <2>3, <3>2 DEF Step, LoadForTurn, NotFound, Ask, AskOfDeleted, AnswerTurn,
         Reload, AnswerLate, AnswerOfDeleted, Show, Deliver, ResultFails, Fail, Leave,
         Refused, Rollback
    <3> QED
      BY <3>1, <3>2
  <2> QED
    BY <2>1, <2>2, <2>3 DEF Next
<1> QED
  BY <1>2, <1>3 DEF Stored, Unanswered

\* No failure, lost browser or death of the process before the commit of a turn can
\* leave its answer in the conversation.
THEOREM NothingIsHalfStored == Spec => UnfinishedTurnsLeaveNoAnswer
<1>1. ASSUME IInv, [Next]_vars
      PROVE  [\A t \in Turn :
                pc'[t] = "ended" /\ pc[t] \notin {"committed", "ended"} => ~Stored(t)']_vars
  BY <1>1, EndsWithoutAnswer
<1>2. IInv /\ [Next]_vars
        => [\A t \in Turn :
              pc'[t] = "ended" /\ pc[t] \notin {"committed", "ended"} => ~Stored(t)']_vars
  BY <1>1
<1> QED
  BY <1>2, Safety, PTL DEF Spec, UnfinishedTurnsLeaveNoAnswer

-----------------------------------------------------------------------------
(***************************************************************************)
(* What the row of the session says of its conversation.                   *)
(***************************************************************************)
\* What a turn believes of the count: the messages there are when it loads the row,
\* and then its own as well, unless others have added some meanwhile.
CountOf(t) ==
    LET object == local[t].object
        due == Len(messages) + Len(local[t].unsaved)
    IN
    life = "alive" =>
      /\ pc[t] \in {"loaded", "reloaded", "working", "answered"} =>
           object.count <= due /\ (overlap \/ object.count = due)
      /\ pc[t] \in {"working", "answered"} => local[t].draft.count = object.count

\* The trace is that of a turn that has committed its answer; the draft of a turn keeps it
\* until there is an answer.
TraceOf(t) ==
    /\ pc[t] \notin {"answered", "committed", "ended"} =>
         session.trace # t /\ local[t].object.trace # t
    /\ pc[t] = "working" => local[t].draft.trace = session.trace
    /\ pc[t] = "answered" => local[t].draft.trace = t

NothingUnsaved(t) == pc[t] \in {"idle", "loaded"} => local[t].unsaved = <<>>

RowOf(t) == CountOf(t) /\ TraceOf(t) /\ NothingUnsaved(t)

\* Two turns under way overlap.
Alone == overlap \/ \A t, u \in Turn : UnderWay(t) /\ UnderWay(u) => t = u

RowInv == Alone /\ SessionRowIsCurrent /\ \A t \in Turn : RowOf(t)

LEMMA InitRow == Init => RowInv
<1> SUFFICES ASSUME Init PROVE RowInv
  OBVIOUS
<1>1. ASSUME NEW t \in Turn PROVE pc[t] = "idle" /\ local[t] = Nothing
  BY DEF Init, Request
<1>2. ASSUME NEW t \in Turn PROVE RowOf(t)
  BY <1>1, RequestAssumption
  DEF RowOf, CountOf, TraceOf, NothingUnsaved, Init, NoRow, NewRow, Nothing, Request
<1> QED
  BY <1>1, <1>2 DEF RowInv, Alone, UnderWay, SessionRowIsCurrent, Init

LEMMA MergedColumns ==
    ASSUME NEW a \in Row, NEW b \in Row, NEW c \in Row
    PROVE  /\ Merged(a, b, c).count = IF a.count # b.count THEN a.count ELSE c.count
           /\ Merged(a, b, c).trace = IF a.trace # b.trace THEN a.trace ELSE c.trace
BY DEF Merged

LEMMA MessageCounts ==
    ASSUME IInv
    PROVE  /\ Len(messages) \in Nat
           /\ \A t \in Turn : /\ Len(local[t].unsaved) \in Nat
                              /\ local[t].object \in Row /\ local[t].draft \in Row
                              /\ local[t].object.count \in Nat /\ local[t].draft.count \in Nat
           /\ session.count \in Nat
<1>1. messages \in Seq(Message) /\ session \in Row
      /\ \A t \in Turn : local[t].unsaved \in Seq(Message) /\ local[t].object \in Row
                         /\ local[t].draft \in Row
  BY DEF IInv, TypeOK, Request, Local
<1> QED
  BY <1>1, LenProperties DEF Row

\* The steps of a turn leave what another one believes true; the lock keeps the row as it
\* is while the other has its draft.
LEMMA RowOfOthers ==
    ASSUME IInv, RowInv, NEW t \in Turn, NEW u \in Turn, u # t,
           pc'[u] = pc[u], local'[u] = local[u], life' = life, overlap => overlap',
           \/ messages' = messages
           \/ messages' = messages \o local[t].unsaved /\ UnderWay(t),
           session'.trace \in {session.trace, t}, pc[u] = "working" => session' = session
    PROVE  RowOf(u)'
<1>1. RowOf(u)
  BY DEF RowInv
<1>2. TraceOf(u)' /\ NothingUnsaved(u)'
  BY <1>1 DEF RowOf, TraceOf, NothingUnsaved
<1>3. CASE messages' = messages
  BY <1>1, <1>2, <1>3 DEF RowOf, CountOf
<1>4. CASE messages' = messages \o local[t].unsaved /\ UnderWay(t)
  <2>1. Len(messages') = Len(messages) + Len(local[t].unsaved)
    BY <1>4, ConcatProperties DEF IInv, TypeOK, Request, Local
  <2>2. UnderWay(u) => overlap'
    BY <1>4 DEF RowInv, Alone
  <2>3. CountOf(u)'
    <3>1. local'[u].object = local[u].object /\ local'[u].draft = local[u].draft
          /\ local'[u].unsaved = local[u].unsaved
      OBVIOUS
    <3>2. pc[u] \in {"loaded", "reloaded", "working", "answered"} => overlap'
      BY <2>2 DEF UnderWay
    <3>0. Len(messages) \in Nat /\ Len(local[t].unsaved) \in Nat /\ Len(local[u].unsaved) \in Nat
          /\ local[u].object.count \in Nat
      BY MessageCounts
    <3>3. Len(messages) + Len(local[u].unsaved) <= Len(messages') + Len(local[u].unsaved)
      BY <2>1, <3>0
    <3>4. local[u].object.count \in Nat /\ Len(messages) + Len(local[u].unsaved) \in Nat
          /\ Len(messages') + Len(local[u].unsaved) \in Nat
      <4>1. Len(messages') \in Nat
        BY <2>1, <3>0
      <4> QED
        BY <3>0, <4>1
    <3> QED
      BY <1>1, <3>1, <3>2, <3>3, <3>4 DEF RowOf, CountOf
  <2> QED
    BY <1>2, <2>3 DEF RowOf
<1> QED
  BY <1>3, <1>4

\* A turn that stays the only one under way.
LEMMA StaysAlone ==
    ASSUME Alone, NEW t \in Turn, \A u \in Turn \ {t} : pc'[u] = pc[u],
           UnderWay(t), overlap' = overlap
    PROVE  Alone'
BY DEF Alone, UnderWay

\* Nothing that readers see is written.
LEMMA RowStays ==
    ASSUME SessionRowIsCurrent, UNCHANGED <<life, session, messages>>, overlap => overlap'
    PROVE  SessionRowIsCurrent'
BY DEF SessionRowIsCurrent

\* A turn that ends without committing.
LEMMA EndedRow ==
    ASSUME IInv, RowInv, NEW t \in Turn,
           NotFound(t) \/ AskOfDeleted(t) \/ AnswerOfDeleted(t) \/ Deliver(t)
             \/ ResultFails(t) \/ Fail(t) \/ Leave(t)
    PROVE  RowInv'
<1>1. Rollback(t) /\ UNCHANGED <<life, torn, overlap>>
  BY DEF NotFound, AskOfDeleted, AnswerOfDeleted, Refused, Deliver, ResultFails, Fail, Leave
<1>2. /\ pc'[t] = "ended" /\ UNCHANGED <<session, messages>>
      /\ \A u \in Turn \ {t} : pc'[u] = pc[u] /\ local'[u] = local[u]
  BY <1>1 DEF Rollback, Goto, IInv, TypeOK, Request
<1>3. Alone'
  BY <1>1, <1>2 DEF RowInv, Alone, UnderWay
<1>4. SessionRowIsCurrent'
  BY <1>1, <1>2, RowStays DEF RowInv
<1>5. RowOf(t)'
  BY <1>2 DEF RowOf, CountOf, TraceOf, NothingUnsaved
<1>6. ASSUME NEW u \in Turn, u # t PROVE RowOf(u)'
  BY <1>1, <1>2, <1>6, RowOfOthers
<1> QED
  BY <1>3, <1>4, <1>5, <1>6 DEF RowInv

\* A question counts one more and leaves the trace.
LEMMA QuestionCounts ==
    ASSUME NEW o \in Row, NEW c \in Context \cup {Unpinned}
    PROVE  LET new == [o EXCEPT !.context = c, !.count = @ + 1,
                                !.title = IF @ = "new" THEN "question" ELSE @]
           IN  new \in Row /\ new.count = o.count + 1 /\ new.trace = o.trace
<1> DEFINE title == IF o.title = "new" THEN "question" ELSE o.title
           new == [o EXCEPT !.title = title, !.context = c, !.count = o.count + 1,
                            !.intent = o.intent, !.trace = o.trace]
<1>1. title \in Title /\ o.count + 1 \in Nat /\ o.intent \in Intent \cup {NoIntent}
      /\ o.trace \in Turn \cup {NoRequest}
  BY DEF Row, Title
<1>2. new = [o EXCEPT !.context = c, !.count = @ + 1,
                      !.title = IF @ = "new" THEN "question" ELSE @]
  BY DEF Row
<1>3. new.count = o.count + 1 /\ new.trace = o.trace
  BY DEF Row
<1>4. new \in Row
  <2> HIDE DEF title
  <2> QED
    BY <1>1, RowIsRecord
<1> QED
  BY <1>2, <1>3, <1>4

\* What a flush leaves in the memory of its turn.
LEMMA Flushed ==
    ASSUME TypeOK, NEW t \in Turn, NEW new, NEW row, NEW unsaved, Flush(t, new, row, unsaved)
    PROVE  /\ local'[t].object = new
           /\ local'[t].draft = Merged(new, local[t].object, row)
           /\ local'[t].unsaved = unsaved
           /\ \A q \in Request \ {t} : local'[q] = local[q]
<1> DEFINE mine == [local[t] EXCEPT !.object = new, !.unsaved = unsaved,
                                    !.draft = Merged(new, local[t].object, row)]
<1>1. local[t] \in Local /\ local \in [Request -> Local] /\ t \in Request
  BY DEF TypeOK, Request
<1>2. mine.object = new /\ mine.unsaved = unsaved
      /\ mine.draft = Merged(new, local[t].object, row)
  BY <1>1 DEF Local
<1>3. local' = [local EXCEPT ![t] = mine]
  BY DEF Flush
<1> HIDE DEF mine
<1> QED
  BY <1>1, <1>2, <1>3

\* A turn that moves on without publishing: the others, the row and the conversation stay.
LEMMA MovedRow ==
    ASSUME IInv, RowInv, NEW t \in Turn, UnderWay(t), NEW l \in Location, Goto(t, l),
           \A q \in Request \ {t} : local'[q] = local[q],
           UNCHANGED <<life, session, messages, overlap>>, RowOf(t)'
    PROVE  RowInv'
<1>1. \A u \in Turn \ {t} : pc'[u] = pc[u] /\ local'[u] = local[u]
  BY DEF Goto, IInv, TypeOK, Request
<1>2. \A u \in Turn : u # t => RowOf(u)'
  BY <1>1, RowOfOthers
<1>3. Alone'
  BY <1>1, StaysAlone DEF RowInv
<1>4. SessionRowIsCurrent'
  BY RowStays DEF RowInv
<1> QED
  BY <1>2, <1>3, <1>4 DEF RowInv

LEMMA LoadRow == ASSUME IInv, RowInv, NEW t \in Turn, LoadForTurn(t) PROVE RowInv'
<1> USE DEF LoadForTurn, Goto
<1>1. PICK kind \in {"post", "stream"}, c \in Context \cup {Unpinned} :
        local' = [local EXCEPT ![t].object = session, ![t].kind = kind,
                    ![t].context = IF c = Unpinned THEN session.context ELSE c]
  OBVIOUS
<1>2. pc' = [pc EXCEPT ![t] = "loaded"] /\ t \in Request /\ pc \in [Request -> Location]
      /\ local \in [Request -> Local] /\ local[t] \in Local
  BY DEF IInv, TypeOK, Request
<1>3. local'[t].object = session /\ local'[t].unsaved = local[t].unsaved
  BY <1>1, <1>2 DEF Local
<1>4. /\ pc'[t] = "loaded" /\ \A u \in Request \ {t} : pc'[u] = pc[u] /\ local'[u] = local[u]
  BY <1>1, <1>2
<1>5. RowOf(t)'
  <2>1. session.trace # t /\ local[t].unsaved = <<>>
    BY DEF RowInv, RowOf, TraceOf, NothingUnsaved
  <2>2. life = "alive" /\ session.count <= Len(messages) /\ (overlap \/ session.count = Len(messages))
    BY DEF RowInv, SessionRowIsCurrent
  <2>3. Len(messages) + Len(local'[t].unsaved) = Len(messages)
    BY <1>3, <2>1, MessageCounts
  <2>4. overlap => overlap'
    OBVIOUS
  <2> QED
    BY <1>3, <1>4, <2>1, <2>2, <2>3, <2>4 DEF RowOf, CountOf, TraceOf, NothingUnsaved
<1>6. ASSUME NEW u \in Turn, u # t PROVE RowOf(u)'
  BY <1>4, <1>6, RowOfOthers DEF Request
<1>7. Alone'
  BY <1>4 DEF Alone, UnderWay, Request
<1>8. SessionRowIsCurrent'
  BY RowStays DEF RowInv
<1> QED
  BY <1>5, <1>6, <1>7, <1>8 DEF RowInv

LEMMA AskRow == ASSUME IInv, RowInv, NEW t \in Turn, Ask(t) PROVE RowInv'
<1> DEFINE object == local[t].object
           new == [object EXCEPT !.context = local[t].context, !.count = @ + 1,
                                 !.title = IF @ = "new" THEN "question" ELSE @]
<1>0. object \in Row /\ session \in Row /\ object.count \in Nat /\ session.count \in Nat
  BY MessageCounts DEF IInv, TypeOK
<1>1. local[t].context \in Context \cup {Unpinned}
  BY DEF IInv, TypeOK, Request, Local
<1>2. new \in Row /\ new.count = object.count + 1 /\ new.trace = object.trace
  BY <1>0, <1>1, QuestionCounts
<1>3. Flush(t, new, session, <<Question(t)>>)
  BY DEF Ask
<1> HIDE DEF object, new
<1>4. /\ local'[t].object = new /\ local'[t].draft = Merged(new, object, session)
      /\ local'[t].unsaved = <<Question(t)>> /\ \A q \in Request \ {t} : local'[q] = local[q]
  BY <1>3, Flushed DEF IInv, object
<1>5. local'[t].draft.count = object.count + 1 /\ local'[t].draft.trace = session.trace
  BY <1>0, <1>2, <1>4, MergedColumns
<1>6. pc[t] = "loaded" /\ pc'[t] = "working" /\ UnderWay(t) /\ Goto(t, "working")
      /\ life = "alive" /\ UNCHANGED <<life, session, messages, overlap>>
  BY DEF Ask, Goto, IInv, TypeOK, Request, UnderWay
<1>7. local[t].unsaved = <<>> /\ session.trace # t /\ object.trace # t
      /\ object.count <= Len(messages) + Len(local[t].unsaved)
      /\ (overlap \/ object.count = Len(messages) + Len(local[t].unsaved))
  BY <1>6 DEF RowInv, RowOf, CountOf, TraceOf, NothingUnsaved, object
<1>8. RowOf(t)'
  <2>1. Len(local'[t].unsaved) = 1 /\ Len(local[t].unsaved) = 0 /\ Len(messages) \in Nat
    BY <1>4, <1>7, MessageCounts
  <2>2. local'[t].object.count = object.count + 1 /\ local'[t].object.trace = object.trace
    BY <1>2, <1>4
  <2>3. /\ object.count + 1 <= Len(messages) + Len(local'[t].unsaved)
        /\ (overlap \/ object.count + 1 = Len(messages) + Len(local'[t].unsaved))
    BY <1>0, <1>7, <2>1
  <2> QED
    BY <1>5, <1>6, <1>7, <2>2, <2>3 DEF RowOf, CountOf, TraceOf, NothingUnsaved
<1> QED
  BY <1>4, <1>6, <1>8, MovedRow DEF Location

\* Storing the answer in memory counts it, and makes the trace the turn's own.
LEMMA AnswerRow ==
    ASSUME IInv, RowInv, NEW t \in Turn, AnswerTurn(t) \/ AnswerLate(t)
    PROVE  RowInv'
<1> DEFINE object == local[t].object
           row == IF pc[t] = "working" THEN local[t].draft ELSE session
<1>0. object \in Row /\ row \in Row /\ object.count \in Nat
      /\ local[t].unsaved \in Seq(Message) /\ local[t].context \in Context \cup {Unpinned}
  BY MessageCounts DEF IInv, TypeOK, Request, Local
<1>1. pc[t] \in {"working", "reloaded"} /\ Goto(t, "answered") /\ pc'[t] = "answered"
      /\ UnderWay(t) /\ UNCHANGED <<life, session, messages, overlap>> /\ StoreAnswer(t, row)
  BY DEF AnswerTurn, AnswerLate, Goto, UnderWay, IInv, TypeOK, Request
<1>2. PICK i \in Intent :
        Flush(t, [object EXCEPT !.context = local[t].context, !.count = @ + 1,
                                !.intent = i, !.trace = t],
              row, Append(local[t].unsaved, Answer(t)))
  BY <1>1 DEF StoreAnswer
<1> DEFINE new == [object EXCEPT !.context = local[t].context, !.count = @ + 1,
                                 !.intent = i, !.trace = t]
           more == Append(local[t].unsaved, Answer(t))
<1> HIDE DEF row
<1>3. new \in Row /\ new.count = object.count + 1 /\ new.trace = t
  <2>1. object.count + 1 \in Nat /\ object.title \in Title
    BY <1>0 DEF Row
  <2>2. new = [object EXCEPT !.title = object.title, !.context = local[t].context,
                             !.count = object.count + 1, !.intent = i, !.trace = t]
    BY <1>0 DEF Row
  <2>3. new.count = object.count + 1 /\ new.trace = t
    BY <1>0 DEF Row
  <2> QED
    BY <1>0, <2>1, <2>2, <2>3, RowIsRecord
<1>11. Flush(t, new, row, more)
  BY <1>2
<1> HIDE DEF object, new, more
<1>4. /\ local'[t].object = new /\ local'[t].draft = Merged(new, object, row)
      /\ local'[t].unsaved = more
      /\ \A q \in Request \ {t} : local'[q] = local[q]
  BY <1>11, Flushed DEF IInv, object
<1>5. object.trace # t
  BY <1>1 DEF RowInv, RowOf, TraceOf, object
<1>6. local'[t].draft.count = object.count + 1 /\ local'[t].draft.trace = t
  BY <1>0, <1>3, <1>4, <1>5, MergedColumns
<1>7. Len(local'[t].unsaved) = Len(local[t].unsaved) + 1 /\ Len(local[t].unsaved) \in Nat
      /\ Len(messages) \in Nat
  BY <1>0, <1>4, MessagesOf, MessageCounts DEF more
<1>8. life = "alive" => /\ object.count <= Len(messages) + Len(local[t].unsaved)
                        /\ (overlap \/ object.count = Len(messages) + Len(local[t].unsaved))
  BY <1>1 DEF RowInv, RowOf, CountOf, object
<1>9. life = "alive" => /\ object.count + 1 <= Len(messages) + Len(local'[t].unsaved)
                        /\ (overlap \/ object.count + 1 = Len(messages) + Len(local'[t].unsaved))
  BY <1>0, <1>7, <1>8
<1>10. RowOf(t)'
  BY <1>1, <1>3, <1>4, <1>6, <1>9 DEF RowOf, CountOf, TraceOf, NothingUnsaved
<1> QED
  BY <1>1, <1>4, <1>10, MovedRow DEF Location

LEMMA ReloadRow == ASSUME IInv, RowInv, NEW t \in Turn, Reload(t) PROVE RowInv'
<1>1. local'[t].object = session /\ local'[t].unsaved = local[t].unsaved
      /\ \A q \in Request \ {t} : local'[q] = local[q]
  BY DEF Reload, IInv, TypeOK, Local, Request
<1>2. pc[t] = "expired" /\ pc'[t] = "reloaded" /\ UnderWay(t) /\ Goto(t, "reloaded")
      /\ life = "alive" /\ UNCHANGED <<life, session, messages, overlap>>
  BY DEF Reload, Goto, IInv, TypeOK, Request, UnderWay
<1>3. local[t].unsaved = <<>>
  BY <1>2 DEF IInv, Stages, StageOf
<1>4. Len(messages) + Len(local'[t].unsaved) = Len(messages)
  BY <1>1, <1>3, MessageCounts
<1>5. session.trace # t
  BY <1>2 DEF RowInv, RowOf, TraceOf
<1>6. session.count <= Len(messages) /\ (overlap \/ session.count = Len(messages))
  BY <1>2 DEF RowInv, SessionRowIsCurrent
<1>7. RowOf(t)'
  BY <1>1, <1>2, <1>4, <1>5, <1>6 DEF RowOf, CountOf, TraceOf, NothingUnsaved
<1> QED
  BY <1>1, <1>2, <1>7, MovedRow DEF Location

\* What a turn publishes: the row of its draft, and the messages it has written.
LEMMA PublishedRow ==
    ASSUME IInv, NEW t \in Turn, Publish(t), NEW l \in Location, Goto(t, l)
    PROVE  /\ session' = local[t].draft /\ messages' = messages \o local[t].unsaved
           /\ Len(messages') = Len(messages) + Len(local[t].unsaved)
           /\ local'[t].object = NoRow /\ local'[t].unsaved = <<>> /\ pc'[t] = l
           /\ \A u \in Request \ {t} : pc'[u] = pc[u] /\ local'[u] = local[u]
<1>1. local[t] \in Local /\ local \in [Request -> Local] /\ t \in Request
      /\ pc \in [Request -> Location] /\ messages \in Seq(Message)
      /\ local[t].unsaved \in Seq(Message)
  BY DEF IInv, TypeOK, Request, Local
<1> DEFINE mine == [local[t] EXCEPT !.unsaved = <<>>, !.object = NoRow, !.draft = NoRow]
<1>2. mine.object = NoRow /\ mine.unsaved = <<>>
  BY <1>1 DEF Local
<1>3. local' = [local EXCEPT ![t] = mine]
  BY <1>1 DEF Publish, Local
<1>4. session' = local[t].draft /\ messages' = messages \o local[t].unsaved
  BY DEF Publish
<1>5. Len(messages') = Len(messages) + Len(local[t].unsaved)
  BY <1>1, <1>4, ConcatProperties
<1> HIDE DEF mine
<1> QED
  BY <1>1, <1>2, <1>3, <1>4, <1>5 DEF Goto

\* The others work without the lock while this turn has it.
LEMMA OthersAreUnlocked ==
    ASSUME IInv, NEW t \in Turn, pc[t] \in {"working", "answered"}, NEW u \in Turn, u # t
    PROVE  pc[u] \notin {"working", "answered"} /\ life = "alive"
BY RequestAssumption DEF IInv, LockHeldOnlyAtWork, Lives, Request

LEMMA ToolRow == ASSUME IInv, RowInv, NEW t \in Turn, ToolCommits(t) PROVE RowInv'
<1>0. pc[t] = "working" /\ Publish(t) /\ Goto(t, "expired") /\ UNCHANGED <<life, overlap>>
      /\ UnderWay(t) /\ "expired" \in Location
  BY DEF ToolCommits, UnderWay, Location
<1>1. /\ session' = local[t].draft /\ messages' = messages \o local[t].unsaved
      /\ Len(messages') = Len(messages) + Len(local[t].unsaved)
      /\ local'[t].object = NoRow /\ local'[t].unsaved = <<>> /\ pc'[t] = "expired"
      /\ \A u \in Turn \ {t} : pc'[u] = pc[u] /\ local'[u] = local[u]
  BY <1>0, PublishedRow DEF Request
<1>2. local[t].draft.trace = session.trace /\ session.trace # t
      /\ local[t].unsaved = <<Question(t)>> /\ life = "alive"
      /\ local[t].draft.count = local[t].object.count
      /\ local[t].object.count <= Len(messages) + Len(local[t].unsaved)
      /\ (overlap \/ local[t].object.count = Len(messages) + Len(local[t].unsaved))
  BY <1>0, RequestAssumption
  DEF RowInv, RowOf, TraceOf, CountOf, IInv, Stages, StageOf, Lives, LockHeldOnlyAtWork, Request
<1>3. RowOf(t)'
  BY <1>1, <1>2, RequestAssumption
  DEF RowOf, CountOf, TraceOf, NothingUnsaved, NoRow, NewRow, Request
<1>4. ASSUME NEW u \in Turn, u # t PROVE RowOf(u)'
  <2>1. pc[u] # "working"
    BY <1>0, <1>4, OthersAreUnlocked
  <2> QED
    BY <1>0, <1>1, <1>2, <1>4, <2>1, RowOfOthers
<1>5. SessionRowIsCurrent'
  <2> SUFFICES ASSUME NEW i \in DOMAIN messages', messages'[i].role = "assistant",
                      \A j \in DOMAIN messages' : j > i => messages'[j].role = "user"
               PROVE  session'.trace = messages'[i].turn
    BY <1>0, <1>1, <1>2 DEF SessionRowIsCurrent
  <2>1. i \in DOMAIN messages
    <3> SUFFICES ASSUME i \notin DOMAIN messages PROVE FALSE
      OBVIOUS
    <3>1. i - Len(messages) \in DOMAIN local[t].unsaved
          /\ messages'[i] = local[t].unsaved[i - Len(messages)]
      BY <1>1, Published
    <3>2. messages'[i] = Question(t)
      BY <1>2, <3>1
    <3> QED
      BY <3>2 DEF Question
  <2>2. \A j \in DOMAIN messages : j \in DOMAIN messages' /\ messages'[j] = messages[j]
    BY <1>1, Published
  <2>3. session.trace = messages[i].turn
    BY <1>2, <2>1, <2>2 DEF RowInv, SessionRowIsCurrent
  <2> QED
    BY <1>1, <1>2, <2>1, <2>2, <2>3
<1>6. Alone'
  BY <1>0, <1>1, StaysAlone DEF RowInv
<1> QED
  BY <1>3, <1>4, <1>5, <1>6 DEF RowInv

LEMMA CommitRow == ASSUME IInv, RowInv, NEW t \in Turn, Commit(t) PROVE RowInv'
<1>0. pc[t] = "answered" /\ Publish(t) /\ Goto(t, "committed") /\ UNCHANGED <<life, overlap>>
      /\ UnderWay(t) /\ "committed" \in Location
  BY DEF Commit, UnderWay, Location
<1>1. /\ session' = local[t].draft /\ messages' = messages \o local[t].unsaved
      /\ Len(messages') = Len(messages) + Len(local[t].unsaved)
      /\ local'[t].unsaved = <<>> /\ pc'[t] = "committed"
      /\ \A u \in Turn \ {t} : pc'[u] = pc[u] /\ local'[u] = local[u]
  BY <1>0, PublishedRow DEF Request
<1>2. local[t].draft.trace = t /\ life = "alive"
      /\ local[t].draft.count = local[t].object.count
      /\ local[t].object.count <= Len(messages) + Len(local[t].unsaved)
      /\ (overlap \/ local[t].object.count = Len(messages) + Len(local[t].unsaved))
  BY <1>0, RequestAssumption
  DEF RowInv, RowOf, TraceOf, CountOf, IInv, Lives, LockHeldOnlyAtWork, Request
<1>3. RowOf(t)'
  BY <1>1, <1>2 DEF RowOf, CountOf, TraceOf, NothingUnsaved
<1>4. ASSUME NEW u \in Turn, u # t PROVE RowOf(u)'
  <2>1. pc[u] # "working"
    BY <1>0, <1>4, OthersAreUnlocked
  <2> QED
    BY <1>0, <1>1, <1>2, <1>4, <2>1, RowOfOthers
<1>5. SessionRowIsCurrent'
  <2> SUFFICES ASSUME NEW i \in DOMAIN messages', messages'[i].role = "assistant",
                      \A j \in DOMAIN messages' : j > i => messages'[j].role = "user"
               PROVE  t = messages'[i].turn
    BY <1>0, <1>1, <1>2 DEF SessionRowIsCurrent
  <2> DEFINE n == Len(messages) + Len(local[t].unsaved)
  <2>0. \/ local[t].unsaved = <<Answer(t)>>
        \/ local[t].unsaved = <<Question(t), Answer(t)>>
    BY <1>0 DEF IInv, Stages, StageOf
  <2>1. Len(local[t].unsaved) \in DOMAIN local[t].unsaved
        /\ local[t].unsaved[Len(local[t].unsaved)] = Answer(t)
    <3>1. CASE local[t].unsaved = <<Answer(t)>>
      BY <3>1
    <3>2. CASE local[t].unsaved = <<Question(t), Answer(t)>>
      <4>1. Len(local[t].unsaved) = 2
        BY <3>2
      <4> QED
        BY <3>2, <4>1
    <3> QED
      BY <2>0, <3>1, <3>2
  <2>2. n \in DOMAIN messages' /\ messages'[n] = Answer(t) /\ DOMAIN messages' = 1..n
        /\ Len(messages) \in Nat /\ Len(local[t].unsaved) \in Nat
    BY <1>1, <2>1, Published, MessageCounts
  <2>3. i = n
    BY <2>2 DEF Answer
  <2> QED
    BY <2>2, <2>3 DEF Answer
<1>6. Alone'
  BY <1>0, <1>1, StaysAlone DEF RowInv
<1> QED
  BY <1>3, <1>4, <1>5, <1>6 DEF RowInv

\* An edit writes the title and the context only, and waits for the lock; a session
\* begins and ends without messages.
LEMMA EditRow ==
    ASSUME IInv, RowInv, Create \/ Delete \/ \E e \in Edit : LoadForEdit(e) \/ CommitEdit(e)
    PROVE  RowInv'
<1>1. \A t \in Turn : pc'[t] = pc[t] /\ local'[t] = local[t]
  BY RequestAssumption
  DEF Create, Delete, LoadForEdit, Load, CommitEdit, Goto, IInv, TypeOK, Request
<1>2. UNCHANGED overlap
  BY DEF Create, Delete, LoadForEdit, CommitEdit
<1>3. Alone'
  BY <1>1, <1>2 DEF RowInv, Alone, UnderWay
<1>4. CASE Delete
  <2>1. \A t \in Turn : pc[t] # "working" /\ session' = NoRow /\ life' = "deleted"
    BY <1>4, RequestAssumption DEF Delete, IInv, LockHeldOnlyAtWork, Request
  <2>2. \A t \in Turn : RowOf(t)'
    BY <1>1, <2>1, RequestAssumption
    DEF RowInv, RowOf, CountOf, TraceOf, NothingUnsaved, NoRow, NewRow, Request
  <2> QED
    BY <1>3, <1>4, <2>2 DEF Delete, RowInv, SessionRowIsCurrent
<1>5. CASE Create
  <2>1. messages = <<>> /\ session'.count = 0 /\ session'.trace = NoRequest
        /\ UNCHANGED messages /\ \A t \in Turn : pc[t] = "idle"
    BY <1>5 DEF Create, NewRow, IInv, Lives, Request
  <2>2. \A t \in Turn : RowOf(t)'
    BY <1>1, <2>1, RequestAssumption
    DEF RowInv, RowOf, CountOf, TraceOf, NothingUnsaved, Request
  <2>3. SessionRowIsCurrent'
    BY <2>1 DEF SessionRowIsCurrent
  <2> QED
    BY <1>3, <2>2, <2>3 DEF RowInv
<1>6. ASSUME NEW e \in Edit, LoadForEdit(e) \/ CommitEdit(e) PROVE RowInv'
  <2>1. UNCHANGED <<life, messages>>
    BY <1>6 DEF LoadForEdit, Load, CommitEdit
  <2>2. session'.count = session.count /\ session'.trace = session.trace
    <3>1. CASE LoadForEdit(e)
      BY <3>1 DEF LoadForEdit, Load
    <3>2. CASE CommitEdit(e)
      <4> DEFINE object == local[e].object
      <4>1. PICK title \in {object.title, "given"}, c \in Context :
              session' = IF life = "alive"
                         THEN Merged([object EXCEPT !.title = title, !.context = c],
                                     object, session)
                         ELSE session
        BY <3>2 DEF CommitEdit
      <4>2. object \in Row /\ session \in Row
        BY DEF IInv, TypeOK, Request, Local
      <4> DEFINE new == [object EXCEPT !.title = title, !.context = c]
      <4>3. new \in Row /\ new.count = object.count /\ new.trace = object.trace
        BY <4>2 DEF Row, Title
      <4> HIDE DEF object, new
      <4>4. Merged(new, object, session).count = session.count
            /\ Merged(new, object, session).trace = session.trace
        BY <4>2, <4>3, MergedColumns
      <4> QED
        BY <4>1, <4>4 DEF new
    <3> QED
      BY <1>6, <3>1, <3>2
  <2>3. \A t \in Turn : RowOf(t)'
    BY <1>1, <1>2, <2>1, <2>2 DEF RowInv, RowOf, CountOf, TraceOf, NothingUnsaved
  <2>4. SessionRowIsCurrent'
    BY <1>2, <2>1, <2>2 DEF RowInv, SessionRowIsCurrent
  <2> QED
    BY <1>3, <2>3, <2>4 DEF RowInv
<1> QED
  BY <1>4, <1>5, <1>6

LEMMA RowPreserved == IInv /\ RowInv /\ [Next]_vars => RowInv'
<1> SUFFICES ASSUME IInv, RowInv, [Next]_vars PROVE RowInv'
  OBVIOUS
<1>1. CASE UNCHANGED vars
  BY <1>1 DEF vars, RowInv, Alone, UnderWay, SessionRowIsCurrent, RowOf, CountOf, TraceOf,
              NothingUnsaved
<1>2. ASSUME NEW t \in Turn, Show(t) PROVE RowInv'
  BY <1>2 DEF Show, RowInv, Alone, UnderWay, SessionRowIsCurrent, RowOf, CountOf, TraceOf,
              NothingUnsaved
<1>3. ASSUME NEW t \in Turn, Step(t) PROVE RowInv'
  BY <1>2, <1>3, EndedRow, LoadRow, AskRow, AnswerRow, ReloadRow, ToolRow, CommitRow DEF Step
<1> QED
  BY <1>1, <1>3, EditRow DEF Next

\* The count of the session's row never exceeds the messages there are, and is exact
\* while turns do not overlap; its trace is that of the last answer, even when turns
\* overlap, a tool commits in the middle of one, or the session is edited.
\* (append_user_message, append_assistant_message, update_session_context)
THEOREM RowsAreCurrent == Spec => []SessionRowIsCurrent
<1>1. RowInv => SessionRowIsCurrent
  BY DEF RowInv
<1> QED
  BY <1>1, InitRow, RowPreserved, Safety, PTL DEF Spec
===============================================================================
