------------------------- MODULE AgentSessionProofs -------------------------
(* What every turn keeps of the conversation, for any number of turns,      *)
(* projects, iterations and tool calls.                                     *)
EXTENDS AgentSession, SequenceTheorems, WellFoundedInduction, TLAPS

CallIds == [turn : Turns, n : Nat]
Messages == [kind : Kinds, ids : Seq(CallIds)]
UserMessage == Message("user", <<>>)

\* The types of TypeOK, without its bounds.
SessionType ==
  /\ conversation \in Seq(Messages)
  /\ era \in Nat
  /\ pc \in [Turns -> {"new", "stream", "dispatch", "persist", "done"}]
  /\ messages \in [Turns -> Seq(Messages)]
  /\ pending \in [Turns -> Seq(CallIds)] /\ blocks \in [Turns -> Seq(CallIds)]
  /\ ran \in [Turns -> Seq(Nat)]

\* The last message asks for these calls, and all before it is well paired.
Asks(ms, ids) ==
  /\ Len(ms) > 1 /\ ms[1] = UserMessage
  /\ ids # <<>> /\ ms[Len(ms)] = Message("assistant", ids)
  /\ \A i \in 1..(Len(ms) - 1) : ms[i].kind = "assistant" /\ ms[i].ids # <<>> =>
       ms[i + 1] = Message("results", ms[i].ids)
  /\ \A i \in 1..Len(ms) : ms[i].kind = "results" =>
       i > 1 /\ ms[i - 1] = Message("assistant", ms[i].ids)

\* A turn that dispatches has a result for the calls it has run, and has still
\* to run the others.
TurnInv(t) ==
  /\ pc[t] \in {"stream", "persist"} => Acceptable(messages[t])
  /\ pc[t] = "dispatch" => Asks(messages[t], blocks[t] \o pending[t])

StoredInv == conversation = <<>> \/ Acceptable(conversation)

SessionInv == SessionType /\ StoredInv /\ \A t \in Turns : TurnInv(t)

---------------------------------------------------------------------------
(* Appending to a conversation                                             *)

LEMMA Appended ==
  ASSUME NEW S, NEW s \in Seq(S), NEW e \in S
  PROVE /\ Append(s, e) \in Seq(S) /\ Append(s, e) # <<>> /\ Len(s) \in Nat
        /\ DOMAIN s = 1..Len(s) /\ Len(Append(s, e)) = Len(s) + 1
        /\ DOMAIN Append(s, e) = 1..(Len(s) + 1)
        /\ \A i \in 1..Len(s) : Append(s, e)[i] = s[i]
        /\ Append(s, e)[Len(s) + 1] = e
BY AppendProperties, LenProperties

LEMMA EmptyIsPaired == WellPaired(<<>>)
BY DEF WellPaired

LEMMA NonEmpty == \A ms \in Seq(Messages) : ms # <<>> => Len(ms) \in Nat \ {0} /\ DOMAIN ms = 1..Len(ms)
BY EmptySeq, LenProperties

\* A user message, or an answer without calls.
LEMMA AppendPlain ==
  ASSUME NEW ms \in Seq(Messages), NEW m \in Messages,
         \/ m = UserMessage /\ (ms = <<>> \/ Acceptable(ms))
         \/ m = Message("assistant", <<>>) /\ Acceptable(ms)
  PROVE Acceptable(Append(ms, m))
<1> DEFINE new == Append(ms, m)
<1>1. /\ new # <<>> /\ Len(ms) \in Nat /\ DOMAIN ms = 1..Len(ms) /\ Len(new) = Len(ms) + 1
      /\ DOMAIN new = 1..(Len(ms) + 1) /\ new[Len(ms) + 1] = m
      /\ \A i \in 1..Len(ms) : new[i] = ms[i]
  BY Appended
<1>2. WellPaired(ms) BY EmptyIsPaired DEF Acceptable
<1>3. m.kind # "results" /\ (m.kind = "assistant" => m.ids = <<>>) BY DEF UserMessage, Message
<1>4. new[1] = UserMessage
  <2>1. CASE ms = <<>>
    <3>1. Len(ms) = 0 BY <2>1
    <3> QED BY <1>1, <2>1, <3>1 DEF Acceptable
  <2>2. CASE ms # <<>>
    <3>1. 1 \in 1..Len(ms) BY <2>2, NonEmpty
    <3> QED BY <1>1, <2>2, <3>1 DEF Acceptable, UserMessage
  <2> QED BY <2>1, <2>2
<1> HIDE DEF new
<1>5. WellPaired(new)
  <2>1. ASSUME NEW i \in DOMAIN new, new[i].kind = "assistant", new[i].ids # <<>>
        PROVE i < Len(new) /\ new[i + 1] = Message("results", new[i].ids)
    <3>1. i \in 1..Len(ms) /\ new[i] = ms[i] BY <1>1, <1>3, <2>1
    <3>2. i < Len(ms) /\ ms[i + 1] = Message("results", ms[i].ids)
      BY <1>1, <1>2, <2>1, <3>1 DEF WellPaired
    <3> QED BY <1>1, <3>1, <3>2
  <2>2. ASSUME NEW i \in DOMAIN new, new[i].kind = "results"
        PROVE i > 1 /\ new[i - 1] = Message("assistant", new[i].ids)
    <3>1. i \in 1..Len(ms) /\ new[i] = ms[i] BY <1>1, <1>3, <2>2
    <3>2. i > 1 /\ ms[i - 1] = Message("assistant", ms[i].ids)
      BY <1>1, <1>2, <2>2, <3>1 DEF WellPaired
    <3> QED BY <1>1, <3>1, <3>2
  <2> QED BY <2>1, <2>2 DEF WellPaired
<1> QED BY <1>1, <1>4, <1>5 DEF Acceptable, UserMessage, new

LEMMA AppendCalls ==
  ASSUME NEW ms \in Seq(Messages), Acceptable(ms), NEW ids \in Seq(CallIds), ids # <<>>
  PROVE Asks(Append(ms, Message("assistant", ids)), ids)
<1> DEFINE m == Message("assistant", ids)
           new == Append(ms, m)
<1>1. m \in Messages /\ m.kind = "assistant" BY DEF Message, Messages, Kinds
<1>2. /\ Len(ms) \in Nat /\ DOMAIN ms = 1..Len(ms) /\ Len(new) = Len(ms) + 1
      /\ new[Len(ms) + 1] = m /\ \A i \in 1..Len(ms) : new[i] = ms[i]
  BY <1>1, Appended
<1>3. Len(ms) \in Nat \ {0} /\ ms[1] = UserMessage /\ WellPaired(ms) BY NonEmpty DEF Acceptable, UserMessage
<1> HIDE DEF new, m
<1>4. Len(new) > 1 /\ new[1] = UserMessage /\ new[Len(new)] = m BY <1>2, <1>3
<1>5. \A i \in 1..(Len(new) - 1) : new[i].kind = "assistant" /\ new[i].ids # <<>> =>
        new[i + 1] = Message("results", new[i].ids)
  BY <1>2, <1>3 DEF WellPaired
<1>6. \A i \in 1..Len(new) : new[i].kind = "results" => i > 1 /\ new[i - 1] = Message("assistant", new[i].ids)
  BY <1>1, <1>2, <1>3 DEF WellPaired
<1> QED BY <1>4, <1>5, <1>6 DEF Asks, new, m

LEMMA AppendResults ==
  ASSUME NEW ms \in Seq(Messages), NEW ids \in Seq(CallIds), Asks(ms, ids)
  PROVE Acceptable(Append(ms, Message("results", ids)))
<1> DEFINE m == Message("results", ids)
           new == Append(ms, m)
<1>1. m \in Messages /\ m.kind = "results" /\ m.ids = ids BY DEF Message, Messages, Kinds
<1>2. /\ new # <<>> /\ Len(ms) \in Nat /\ Len(new) = Len(ms) + 1 /\ DOMAIN new = 1..(Len(ms) + 1)
      /\ new[Len(ms) + 1] = m /\ \A i \in 1..Len(ms) : new[i] = ms[i]
  BY <1>1, Appended
<1> HIDE DEF new
<1>3. ms[Len(ms)].ids = ids BY DEF Asks, Message
<1>4. WellPaired(new)
  <2>1. ASSUME NEW i \in DOMAIN new, new[i].kind = "assistant", new[i].ids # <<>>
        PROVE i < Len(new) /\ new[i + 1] = Message("results", new[i].ids)
    <3>1. i \in 1..Len(ms) /\ new[i] = ms[i] BY <1>1, <1>2, <2>1
    <3>2. CASE i = Len(ms) BY <1>2, <1>3, <3>1, <3>2
    <3>3. CASE i < Len(ms)
      <4>1. ms[i + 1] = Message("results", ms[i].ids) BY <1>2, <2>1, <3>1, <3>3 DEF Asks
      <4> QED BY <1>2, <3>1, <3>3, <4>1
    <3> QED BY <1>2, <3>1, <3>2, <3>3
  <2>2. ASSUME NEW i \in DOMAIN new, new[i].kind = "results"
        PROVE i > 1 /\ new[i - 1] = Message("assistant", new[i].ids)
    <3>1. CASE i = Len(ms) + 1
      <4>1. new[i - 1] = ms[Len(ms)] BY <1>2, <3>1 DEF Asks
      <4> QED BY <1>1, <1>2, <3>1, <4>1 DEF Asks
    <3>2. CASE i \in 1..Len(ms)
      <4>1. i > 1 /\ ms[i - 1] = Message("assistant", ms[i].ids) BY <1>2, <2>2, <3>2 DEF Asks
      <4> QED BY <1>2, <3>2, <4>1
    <3> QED BY <1>2, <3>1, <3>2
  <2> QED BY <2>1, <2>2 DEF WellPaired
<1>5. new[1] = UserMessage BY <1>2 DEF Asks
<1> QED BY <1>2, <1>4, <1>5 DEF Acceptable, UserMessage, new

\* A call moves from the ones to run to the ones that have a result.
LEMMA CallMoved ==
  ASSUME NEW b \in Seq(CallIds), NEW p \in Seq(CallIds), p # <<>>
  PROVE /\ Append(b, Head(p)) \in Seq(CallIds) /\ Tail(p) \in Seq(CallIds)
        /\ Append(b, Head(p)) \o Tail(p) = b \o p
<1>1. Head(p) \in CallIds /\ Tail(p) \in Seq(CallIds) BY HeadTailProperties
<1>2. <<Head(p)>> \in Seq(CallIds) BY <1>1
<1>3. Append(b, Head(p)) = b \o <<Head(p)>> BY <1>1, AppendIsConcat
<1>4. Append(b, Head(p)) \in Seq(CallIds) BY <1>1, AppendProperties
<1>5. <<Head(p)>> \o Tail(p) = p
  <2>1. Len(p) \in Nat \ {0} BY EmptySeq
  <2>2. /\ Len(<<Head(p)>> \o Tail(p)) = Len(p)
        /\ \A i \in 1..Len(p) : (<<Head(p)>> \o Tail(p))[i] = p[i]
    BY <1>1, <1>2, <2>1, ConcatProperties, HeadTailProperties
  <2>3. <<Head(p)>> \o Tail(p) \in Seq(CallIds) BY <1>1, <1>2, ConcatProperties
  <2> QED BY <2>2, <2>3, SeqEqual
<1>6. (b \o <<Head(p)>>) \o Tail(p) = b \o (<<Head(p)>> \o Tail(p)) BY <1>1, <1>2, ConcatAssociative
<1> QED BY <1>1, <1>3, <1>4, <1>5, <1>6

---------------------------------------------------------------------------
(* The invariant                                                           *)

\* The commands of the left rail touch no turn, and clear what is stored or
\* leave it alone.
LEMMA RailSteps ==
  ASSUME SessionInv, RailStep PROVE SessionInv'
<1>1. UNCHANGED turnvars /\ conversation' \in {conversation, <<>>}
  BY DEF RailStep, AgentReset, CreateProject, SelectChecks, DeleteRemoves, SelectSets, SelectClears,
         DeleteDeselects
<1>2. era' \in Nat
  <2>1. era' \in {era, era + 1}
    BY DEF RailStep, AgentReset, CreateProject, SelectChecks, DeleteRemoves, SelectSets, SelectClears,
           DeleteDeselects, NewEra, railvars
  <2>2. era \in Nat BY DEF SessionInv, SessionType
  <2> QED BY <2>1, <2>2
<1>3. SessionType' BY <1>1, <1>2, EmptySeq DEF SessionInv, SessionType, turnvars
<1>4. StoredInv' BY <1>1 DEF SessionInv, StoredInv, Acceptable, WellPaired
<1>5. ASSUME NEW t \in Turns PROVE TurnInv(t)'
  BY <1>1 DEF SessionInv, TurnInv, turnvars, Acceptable, WellPaired, Asks
<1> QED BY <1>3, <1>4, <1>5 DEF SessionInv

\* A step of turn t that leaves it with messages ms is all about t.
LEMMA OwnStep ==
  ASSUME SessionInv, NEW t \in Turns, NEW to, NEW ms, NEW ps, NEW bs,
         SessionType', StoredInv',
         pc' = [pc EXCEPT ![t] = to], messages' = [messages EXCEPT ![t] = ms],
         pending' = [pending EXCEPT ![t] = ps], blocks' = [blocks EXCEPT ![t] = bs],
         to \in {"stream", "persist"} => Acceptable(ms),
         to = "dispatch" => Asks(ms, bs \o ps)
  PROVE SessionInv'
<1> SUFFICES ASSUME NEW u \in Turns PROVE TurnInv(u)'
  BY DEF SessionInv
<1>1. CASE u = t
  <2>1. pc'[u] = to /\ messages'[u] = ms /\ pending'[u] = ps /\ blocks'[u] = bs
    BY <1>1 DEF SessionInv, SessionType
  <2> QED BY <2>1 DEF TurnInv
<1>2. CASE u # t
  <2>1. pc'[u] = pc[u] /\ messages'[u] = messages[u] /\ pending'[u] = pending[u] /\ blocks'[u] = blocks[u]
    BY <1>2 DEF SessionInv, SessionType
  <2> QED BY <2>1 DEF SessionInv, TurnInv
<1> QED BY <1>1, <1>2

\* The ids of new calls.
LEMMA NewIds ==
  ASSUME SessionType, NEW t \in Turns, NEW n \in Nat
  PROVE NextIds(t, n) \in Seq(CallIds) /\ (n = 0 => NextIds(t, n) = <<>>) /\ (n > 0 => NextIds(t, n) # <<>>)
<1>1. Len(ran[t]) \in Nat BY LenProperties DEF SessionType
<1>2. NextIds(t, n) \in [1..n -> CallIds] BY <1>1 DEF NextIds, CallIds
<1>3. NextIds(t, n) \in Seq(CallIds) BY <1>2, SeqDef
<1>4. DOMAIN NextIds(t, n) = 1..n /\ DOMAIN <<>> = {} BY DEF NextIds
<1>5. n = 0 => NextIds(t, n) = <<>>
  <2>1. n = 0 => Len(NextIds(t, n)) = 0 BY <1>3, <1>4, LenProperties
  <2> QED BY <1>3, <2>1, EmptySeq
<1>6. n > 0 => NextIds(t, n) # <<>> BY <1>4
<1> QED BY <1>3, <1>5, <1>6

\* Turn t takes a step, and moves nothing of the rail, the stored conversation
\* or the calls it has run.
LEMMA TurnMoves ==
  ASSUME SessionInv, NEW t \in Turns,
         NEW to \in {"stream", "dispatch", "persist", "done"}, NEW ms \in Seq(Messages),
         NEW ps \in Seq(CallIds), NEW bs \in Seq(CallIds),
         UNCHANGED <<era, conversation, ran>>,
         pc' = [pc EXCEPT ![t] = to], messages' = [messages EXCEPT ![t] = ms],
         pending' = [pending EXCEPT ![t] = ps], blocks' = [blocks EXCEPT ![t] = bs],
         to \in {"stream", "persist"} => Acceptable(ms),
         to = "dispatch" => Asks(ms, bs \o ps)
  PROVE SessionInv'
<1>1. SessionType' BY DEF SessionInv, SessionType
<1>2. StoredInv' BY DEF SessionInv, StoredInv
<1> QED BY <1>1, <1>2, OwnStep

LEMMA TurnSteps ==
  ASSUME SessionInv, NEW t \in Turns, TurnStep(t) PROVE SessionInv'
<1>0. SessionType /\ StoredInv /\ TurnInv(t) BY DEF SessionInv
<1> DEFINE ms == messages[t]
           ps == pending[t]
           bs == blocks[t]
<1>a. ms \in Seq(Messages) /\ ps \in Seq(CallIds) /\ bs \in Seq(CallIds)
  BY <1>0 DEF SessionType
<1>b. /\ messages = [messages EXCEPT ![t] = ms] /\ pending = [pending EXCEPT ![t] = ps]
      /\ blocks = [blocks EXCEPT ![t] = bs]
  BY <1>0 DEF SessionType
<1>1. CASE Send(t)
  <2> DEFINE new == Append(conversation, UserMessage)
  <2>1. /\ UNCHANGED <<era, conversation, pending, blocks, ran>>
        /\ pc' = [pc EXCEPT ![t] = "stream"] /\ messages' = [messages EXCEPT ![t] = new]
    BY <1>1 DEF Send, Goto, railvars, UserMessage
  <2>2. UserMessage \in Messages BY EmptySeq DEF UserMessage, Message, Messages, Kinds
  <2>3. new \in Seq(Messages) BY <1>0, <2>2, Appended DEF SessionType
  <2>4. Acceptable(new) BY <1>0, <2>2, AppendPlain DEF SessionType, StoredInv
  <2> HIDE DEF new
  <2> QED BY <1>a, <1>b, <2>1, <2>3, <2>4, TurnMoves
<1>2. CASE StreamFails(t) \/ LoopLimitExceeded(t)
  <2>1. /\ UNCHANGED <<era, conversation, messages, pending, blocks, ran>>
        /\ pc[t] = "stream" /\ pc' = [pc EXCEPT ![t] = "persist"]
    BY <1>2 DEF StreamFails, LoopLimitExceeded, Goto, railvars
  <2>2. Acceptable(ms) BY <1>0, <2>1 DEF TurnInv
  <2> QED BY <1>a, <1>b, <2>1, <2>2, TurnMoves
<1>8. CASE StreamPanics(t)
  <2>1. /\ UNCHANGED <<era, conversation, messages, pending, blocks, ran>>
        /\ pc' = [pc EXCEPT ![t] = "done"]
    BY <1>8 DEF StreamPanics, Goto, railvars
  <2> QED BY <1>a, <1>b, <2>1, TurnMoves
<1>3. ASSUME NEW text \in BOOLEAN, NEW n \in 0..MaxCalls, Streamed(t, text, n) PROVE SessionInv'
  <2> DEFINE ids == NextIds(t, n)
             m == Message("assistant", ids)
             new == IF text \/ n > 0 THEN Append(ms, m) ELSE ms
  <2>1. n \in Nat BY SessionAssumption
  <2>2. ids \in Seq(CallIds) /\ (n = 0 => ids = <<>>) /\ (n > 0 => ids # <<>>)
    BY <1>0, <2>1, NewIds
  <2> HIDE DEF ids
  <2>3. m \in Messages BY <2>2 DEF Message, Messages, Kinds
  <2>4. pc[t] = "stream" BY <1>3 DEF Streamed, Goto
  <2>5. Acceptable(ms) BY <1>0, <2>4 DEF TurnInv
  <2>6. new \in Seq(Messages) BY <1>a, <2>3, Appended
  <2>7. /\ UNCHANGED <<era, conversation, ran>>
        /\ pc' = [pc EXCEPT ![t] = IF n = 0 THEN "persist" ELSE "dispatch"]
        /\ pending' = [pending EXCEPT ![t] = ids] /\ blocks' = [blocks EXCEPT ![t] = <<>>]
    BY <1>3 DEF Streamed, Goto, railvars, ids
  <2>8. messages' = [messages EXCEPT ![t] = new]
    BY <1>3, <1>b DEF Streamed, Push, ids
  <2>9. CASE n = 0
    <3>1. Acceptable(new) BY <1>a, <2>2, <2>3, <2>5, <2>9, AppendPlain
    <3> HIDE DEF new
    <3> QED BY <2>2, <2>6, <2>7, <2>8, <2>9, <3>1, EmptySeq, TurnMoves
  <2>10. CASE n > 0
    <3>1. Asks(new, ids) BY <1>a, <2>2, <2>5, <2>10, AppendCalls
    <3>2. <<>> \o ids = ids /\ <<>> \in Seq(CallIds) BY <2>2, ConcatEmptySeq, EmptySeq
    <3> HIDE DEF new
    <3> QED BY <2>2, <2>6, <2>7, <2>8, <2>10, <3>1, <3>2, TurnMoves
  <2> QED BY <2>1, <2>9, <2>10
<1>4. CASE Runs(t) /\ era' = era
  <2> DEFINE newps == Tail(ps)
             newbs == Append(bs, Head(ps))
  <2>1. /\ pc[t] = "dispatch" /\ ps # <<>> /\ UNCHANGED <<era, conversation, messages, pc>>
        /\ pending' = [pending EXCEPT ![t] = newps] /\ blocks' = [blocks EXCEPT ![t] = newbs]
        /\ ran' = [ran EXCEPT ![t] = Append(ran[t], era)]
    BY <1>4 DEF Runs
  <2>2. newps \in Seq(CallIds) /\ newbs \in Seq(CallIds) /\ newbs \o newps = bs \o ps
    BY <1>a, <2>1, CallMoved
  <2>3. Asks(ms, newbs \o newps) BY <1>0, <2>1, <2>2 DEF TurnInv
  <2>4. Append(ran[t], era) \in Seq(Nat) BY <1>0, AppendProperties DEF SessionType
  <2>5. pc' = [pc EXCEPT ![t] = "dispatch"] BY <1>0, <2>1 DEF SessionType
  <2> HIDE DEF newps, newbs
  <2>6. SessionType' BY <1>0, <2>1, <2>2, <2>4 DEF SessionType
  <2>7. StoredInv' BY <1>0, <2>1 DEF StoredInv
  <2>8. messages' = [messages EXCEPT ![t] = ms] BY <1>b, <2>1
  <2> QED BY <2>1, <2>3, <2>5, <2>6, <2>7, <2>8, OwnStep
<1>5. CASE Dispatched(t)
  <2> DEFINE m == Message("results", bs)
             new == Append(ms, m)
  <2>1. /\ pc[t] = "dispatch" /\ ps = <<>> /\ UNCHANGED <<era, conversation, pending, blocks, ran>>
        /\ pc' = [pc EXCEPT ![t] = "stream"] /\ messages' = [messages EXCEPT ![t] = new]
    BY <1>5 DEF Dispatched, Goto, Push, railvars
  <2>2. Asks(ms, bs)
    <3>1. bs \o ps = bs BY <1>a, <2>1, ConcatEmptySeq
    <3> QED BY <1>0, <2>1, <3>1 DEF TurnInv
  <2>3. Acceptable(new) BY <1>a, <2>2, AppendResults
  <2>4. m \in Messages BY <1>a DEF Message, Messages, Kinds
  <2>5. new \in Seq(Messages) BY <1>a, <2>4, Appended
  <2> HIDE DEF new
  <2> QED BY <1>a, <1>b, <2>1, <2>3, <2>5, TurnMoves
<1>6. CASE Persist(t)
  <2>1. /\ pc[t] = "persist" /\ conversation' = ms /\ UNCHANGED <<era, messages, pending, blocks, ran>>
        /\ pc' = [pc EXCEPT ![t] = "done"]
    BY <1>6 DEF Persist, Goto, railvars
  <2>2. StoredInv' BY <1>0, <2>1 DEF TurnInv, StoredInv
  <2>3. SessionType' BY <1>0, <1>a, <2>1 DEF SessionType
  <2>4. /\ messages' = [messages EXCEPT ![t] = ms] /\ pending' = [pending EXCEPT ![t] = ps]
        /\ blocks' = [blocks EXCEPT ![t] = bs]
    BY <1>b, <2>1
  <2> HIDE DEF ms, ps, bs
  <2> QED BY <2>1, <2>2, <2>3, <2>4, OwnStep
<1>7. (Dispatch(t) \/ \E p \in Projects : DispatchCreateProject(t, p)) => Runs(t) /\ era' = era
  BY DEF Dispatch, DispatchCreateProject, railvars
<1> QED BY <1>1, <1>2, <1>3, <1>4, <1>5, <1>6, <1>7, <1>8 DEF TurnStep

LEMMA SessionInit == Init => SessionInv
<1> SUFFICES ASSUME Init PROVE SessionInv OBVIOUS
<1>1. \A S : <<>> \in Seq(S) BY EmptySeq
<1>2. SessionType BY <1>1 DEF Init, SessionType
<1>3. StoredInv BY DEF Init, StoredInv
<1>4. \A t \in Turns : TurnInv(t) BY DEF Init, TurnInv
<1> QED BY <1>2, <1>3, <1>4 DEF SessionInv

LEMMA SessionStep == SessionInv /\ [Next]_vars => SessionInv'
<1> SUFFICES ASSUME SessionInv, [Next]_vars PROVE SessionInv' OBVIOUS
<1>1. CASE RailStep BY <1>1, RailSteps
<1>2. ASSUME NEW t \in Turns, TurnStep(t) PROVE SessionInv' BY <1>2, TurnSteps
<1>3. CASE UNCHANGED vars
  BY <1>3 DEF vars, railvars, turnvars, SessionInv, SessionType, StoredInv, TurnInv
<1> QED BY <1>1, <1>2, <1>3 DEF Next

\* Between two messages of a turn nothing is missing but the results of the
\* calls it still runs (AgentSession::run and dispatch).
THEOREM SessionInvariant == Spec => []SessionInv
BY SessionInit, SessionStep, PTL DEF Spec

---------------------------------------------------------------------------
(* What goes on the wire.  build_request_body's loop is a recursive         *)
(* function; induction is used as a fact about sets of numbers.             *)

\* A set of numbers has a least one.
LEMMA NatMin ==
  ASSUME NEW T \in SUBSET Nat, T # {}
  PROVE  \E x \in T : \A y \in T : x <= y
<1>1. PICK x \in T : \A y \in T : ~(<<y, x>> \in OpToRel(<, Nat))
  BY WFMin, NatLessThanWellFounded
<1>2. ASSUME NEW y \in T PROVE x <= y
  <2>1. ~(y < x)
    BY <1>1 DEF OpToRel
  <2> QED BY <2>1
<1> QED BY <1>2

\* What holds of 0, and of n + 1 if of n, holds of every number.
LEMMA SetInduction ==
  ASSUME NEW S, 0 \in S, \A n \in Nat : n \in S => n + 1 \in S
  PROVE  Nat \subseteq S
<1> SUFFICES ASSUME Nat \ S # {} PROVE FALSE
  OBVIOUS
<1>1. PICK x \in Nat \ S : \A y \in Nat \ S : x <= y
  BY NatMin
<1>2. x - 1 \in Nat /\ x - 1 \notin Nat \ S
  BY <1>1
<1> QED BY <1>1, <1>2

\* The function that build_request_body's loop computes.
Converts(f, out) ==
  f = [n \in 0..Len(out) |->
         IF n = 0 THEN <<>>
         ELSE IF out[n].kind = "system" THEN f[n - 1] ELSE Append(f[n - 1], out[n])]

\* Wire takes a function that does what the loop does, if there is one.
LEMMA WireConverts ==
  ASSUME NEW out, \E f : Converts(f, out)
  PROVE  \E f : Converts(f, out) /\ Wire(out) = f[Len(out)]
<1>1. PICK g : g = CHOOSE f : Converts(f, out)
  OBVIOUS
<1>2. Converts(g, out)
  BY <1>1
<1>3. Wire(out) = g[Len(out)]
  BY <1>1 DEF Wire, Converts
<1> QED BY <1>2, <1>3

\* run_turn puts the system prompt before the messages.
LEMMA OutgoingIs ==
  ASSUME NEW ms \in Seq(Messages)
  PROVE  /\ Len(Outgoing(ms)) = Len(ms) + 1 /\ Outgoing(ms)[1].kind = "system"
         /\ \A n \in 1..Len(ms) : Outgoing(ms)[n + 1] = ms[n]
<1>1. PICK sys : sys = Message("system", <<>>)
  OBVIOUS
<1>2. <<sys>> \in Seq({sys} \cup Messages) /\ ms \in Seq({sys} \cup Messages)
  BY SeqMonotonic
<1>3. Len(<<sys>>) = 1 /\ <<sys>>[1] = sys /\ Len(ms) \in Nat
  BY <1>2
<1>4. Outgoing(ms) = <<sys>> \o ms
  BY <1>1 DEF Outgoing
<1>5. /\ Len(<<sys>> \o ms) = Len(ms) + 1
      /\ \A i \in 1..(Len(ms) + 1) : (<<sys>> \o ms)[i] = IF i <= 1 THEN <<sys>>[i] ELSE ms[i - 1]
  BY <1>2, <1>3, ConcatProperties
<1> QED BY <1>1, <1>3, <1>4, <1>5 DEF Message

\* The system prompt is lifted out, and nothing else.
LEMMA WireIs == ASSUME NEW ms \in Seq(Messages) PROVE Wire(Outgoing(ms)) = ms
<1>1. PICK out : out = Outgoing(ms)
  OBVIOUS
<1>2. /\ Len(ms) \in Nat /\ Len(out) = Len(ms) + 1 /\ out[1].kind = "system"
      /\ \A n \in 1..Len(ms) : out[n + 1] = ms[n] /\ ms[n] \in Messages
  BY <1>1, OutgoingIs, LenProperties, ElementOfSeq
<1>3. PICK g : g = [n \in 0..Len(out) |-> IF n = 0 THEN <<>> ELSE SubSeq(ms, 1, n - 1)]
  OBVIOUS
<1>4. g[0] = <<>> /\ \A n \in 1..Len(out) : g[n] = SubSeq(ms, 1, n - 1)
  BY <1>2, <1>3
<1>5. \A n \in 0..Len(out) :
        g[n] = IF n = 0 THEN <<>> ELSE IF out[n].kind = "system" THEN g[n - 1] ELSE Append(g[n - 1], out[n])
  <2> SUFFICES ASSUME NEW n \in 0..Len(out), n # 0
               PROVE g[n] = IF out[n].kind = "system" THEN g[n - 1] ELSE Append(g[n - 1], out[n])
    BY <1>4
  <2>1. CASE n = 1
    <3>1. SubSeq(ms, 1, 0) = <<>>
      BY SubSeqEmpty
    <3> QED BY <1>2, <1>4, <2>1, <3>1
  <2>2. CASE n > 1
    <3>1. n - 1 \in 1..Len(ms) /\ out[n] = ms[n - 1] /\ out[n].kind # "system"
      <4>1. n - 1 \in 1..Len(ms) /\ (n - 1) + 1 = n
        BY <1>2, <2>2
      <4>2. out[(n - 1) + 1] = ms[n - 1] /\ ms[n - 1] \in Messages
        BY <1>2, <4>1
      <4> QED BY <4>1, <4>2 DEF Messages, Kinds
    <3>2. SubSeq(ms, 1, n - 1) = Append(SubSeq(ms, 1, n - 2), ms[n - 1])
      <4>1. 1 \in 1..Len(ms) /\ n - 1 \in 1..Len(ms) /\ (n - 1) - 1 = n - 2
        BY <3>1, <1>2
      <4>2. SubSeq(ms, 1, n - 1) = SubSeq(ms, 1, n - 2) \o <<ms[n - 1]>>
        BY <4>1, SubSeqRecursiveSecond
      <4>3. SubSeq(ms, 1, n - 2) \in Seq(Messages) /\ ms[n - 1] \in Messages
        <5>1. \A i \in 1..(n - 2) : ms[i] \in Messages
          BY <1>2, <4>1
        <5> QED BY <1>2, <4>1, <5>1, SubSeqProperties
      <4> QED BY <4>2, <4>3, AppendIsConcat
    <3>3. g[n - 1] = SubSeq(ms, 1, n - 2) /\ g[n] = SubSeq(ms, 1, n - 1)
      <4>1. n \in 1..Len(out) /\ n - 1 \in 1..Len(out) /\ (n - 1) - 1 = n - 2
        BY <1>2, <2>2
      <4>2. g[n - 1] = SubSeq(ms, 1, (n - 1) - 1) /\ g[n] = SubSeq(ms, 1, n - 1)
        BY <1>4, <4>1
      <4> QED BY <4>1, <4>2
    <3> QED BY <3>1, <3>2, <3>3
  <2> QED BY <2>1, <2>2
<1>6. Converts(g, out)
  BY <1>3, <1>5 DEF Converts
<1>7. PICK f : Converts(f, out) /\ Wire(out) = f[Len(out)]
  BY <1>6, WireConverts
<1>8. f[Len(out)] = g[Len(out)]
  <2>1. \A n \in 0..Len(out) :
          f[n] = IF n = 0 THEN <<>> ELSE IF out[n].kind = "system" THEN f[n - 1] ELSE Append(f[n - 1], out[n])
    BY <1>7 DEF Converts
  <2>2. PICK S : S = {n \in Nat : n <= Len(out) => f[n] = g[n]}
    OBVIOUS
  <2>3. 0 \in S
    BY <1>2, <1>5, <2>1, <2>2
  <2>4. ASSUME NEW n \in Nat, n \in S PROVE n + 1 \in S
    BY <1>2, <1>5, <2>1, <2>2, <2>4
  <2>5. Nat \subseteq S
    BY <2>3, <2>4, SetInduction
  <2> QED BY <1>2, <2>2, <2>5
<1>9. g[Len(out)] = ms
  <2>1. SubSeq(ms, 1, Len(ms)) = ms
    BY <1>2, SubSeqFull
  <2> QED BY <1>2, <1>4, <2>1
<1> QED BY <1>1, <1>7, <1>8, <1>9

\* However streams end, calls fail, turns overlap and commands clear what is
\* stored, every tool_use that AgentSession::run and dispatch write keeps its
\* tool_result, and so does the body build_request_body makes of them.
THEOREM RequestsPaired == Spec => []RequestsArePaired
<1>1. SessionInv => RequestsArePaired
  <2> SUFFICES ASSUME SessionInv PROVE RequestsArePaired
    OBVIOUS
  <2>1. HistoriesArePaired
    BY EmptyIsPaired DEF SessionInv, StoredInv, TurnInv, HistoriesArePaired, Acceptable
  <2>2. ASSUME NEW t \in Turns, pc[t] = "stream" PROVE Acceptable(Wire(Outgoing(messages[t])))
    BY <2>2, WireIs DEF SessionInv, SessionType, TurnInv
  <2> QED BY <2>1, <2>2 DEF RequestsArePaired
<1> QED BY SessionInvariant, <1>1, PTL

---------------------------------------------------------------------------
(* The types, with their bounds                                            *)

\* The calls a turn has run, and those it has still to run, are within what its
\* iterations may ask for.
Budget(t) ==
  /\ pc[t] \in {"new", "stream"} => Len(ran[t]) <= iteration[t] * MaxCalls
  /\ pc[t] = "dispatch" =>
       iteration[t] < MaxIterations /\ Len(ran[t]) + Len(pending[t]) <= iteration[t] * MaxCalls + MaxCalls

TypesInv == SessionInv /\ TypeOK /\ \A t \in Turns : Budget(t)

LEMMA BudgetGrows ==
  ASSUME NEW i \in Nat, i < MaxIterations
  PROVE  /\ i * MaxCalls \in Nat /\ (i + 1) * MaxCalls = i * MaxCalls + MaxCalls
         /\ i * MaxCalls + MaxCalls <= MaxIterations * MaxCalls
<1>1. PICK d \in Nat : MaxIterations = (i + 1) + d
  <2>1. MaxIterations - (i + 1) \in Nat
    BY SessionAssumption
  <2> QED BY <2>1, SessionAssumption
<1>2. \A a, b, c \in Nat : a * c \in Nat /\ (a + b) * c = a * c + b * c
  OBVIOUS
<1>3. (i + 1) * MaxCalls = i * MaxCalls + MaxCalls /\ i * MaxCalls \in Nat
  BY <1>2, SessionAssumption
<1>4. ((i + 1) + d) * MaxCalls = (i + 1) * MaxCalls + d * MaxCalls /\ d * MaxCalls \in Nat
  BY <1>2, SessionAssumption
<1> QED BY <1>1, <1>3, <1>4, SessionAssumption

\* A message of typed ids goes to the end of a typed conversation.
LEMMA ConversationGrows ==
  ASSUME NEW ms \in Seq(Messages), IsConversation(ms), NEW kind \in Kinds, NEW ids \in Seq(Ids)
  PROVE  IsConversation(Append(ms, Message(kind, ids)))
<1>1. PICK m : m = Message(kind, ids)
  OBVIOUS
<1>2. m.kind = kind /\ m.ids = ids
  BY <1>1 DEF Message
<1>3. ms \in Seq(Messages \cup {m})
  BY SeqMonotonic
<1>4. /\ DOMAIN ms = 1..Len(ms) /\ DOMAIN Append(ms, m) = 1..(Len(ms) + 1) /\ Len(ms) \in Nat
      /\ \A i \in 1..Len(ms) : Append(ms, m)[i] = ms[i]
      /\ Append(ms, m)[Len(ms) + 1] = m
  BY <1>3, Appended
<1> QED BY <1>1, <1>2, <1>4 DEF IsConversation

\* The ids of the next calls, if there is budget for them.
LEMMA NewIdsTyped ==
  ASSUME NEW t \in Turns, ran[t] \in Seq(Eras), NEW n \in 0..MaxCalls,
         Len(ran[t]) + n <= MaxIterations * MaxCalls
  PROVE  NextIds(t, n) \in Seq(Ids) /\ Len(NextIds(t, n)) = n
<1>1. Len(ran[t]) \in Nat /\ n \in Nat
  BY LenProperties, SessionAssumption
<1>2. PICK most : most = MaxIterations * MaxCalls /\ most \in Nat
  BY SessionAssumption
<1>3. \A i \in 1..n : Len(ran[t]) + i \in 1..most
  BY <1>1, <1>2
<1>4. NextIds(t, n) \in [1..n -> Ids]
  BY <1>2, <1>3 DEF NextIds, Ids
<1>5. NextIds(t, n) \in Seq(Ids) /\ DOMAIN NextIds(t, n) = 1..n
  BY <1>1, <1>4, SeqDef
<1> QED BY <1>1, <1>5, LenProperties

\* Every command of the rail rests, or is at a step of its own with a project.
RailType == rail \in [Commands -> {Resting} \cup [at : {"checked", "switched", "deleted"}, project : Projects]]

LEMMA RailStepTyped == ASSUME RailType, RailStep PROVE RailType'
<1>1. ASSUME NEW c \in Commands, RailEnds(c) PROVE RailType'
  BY <1>1 DEF RailType, RailEnds
<1>2. ASSUME NEW c \in Commands, NEW p \in Projects, NEW at \in {"checked", "switched", "deleted"}, RailAt(c, at, p)
      PROVE  RailType'
  BY <1>2 DEF RailType, RailAt
<1>3. ASSUME rail' = rail PROVE RailType'
  BY <1>3 DEF RailType
<1>4. ASSUME NEW c \in Commands, SelectSets(c) PROVE RailType'
  <2>1. rail[c].at = "checked"
    BY <1>4 DEF SelectSets
  <2>2. rail[c].project \in Projects
    <3>1. rail[c] \in {Resting} \cup [at : {"checked", "switched", "deleted"}, project : Projects]
      BY DEF RailType
    <3> QED BY <2>1, <3>1 DEF Resting
  <2>3. CASE SwitchingAway(rail[c].project)
    <3>1. RailAt(c, "switched", rail[c].project)
      BY <1>4, <2>3 DEF SelectSets
    <3> QED BY <1>2, <2>2, <3>1
  <2>4. CASE ~SwitchingAway(rail[c].project)
    <3>1. RailEnds(c)
      BY <1>4, <2>4 DEF SelectSets
    <3> QED BY <1>1, <3>1
  <2> QED BY <2>3, <2>4
<1>5. ASSUME NEW c \in Commands, SelectClears(c) \/ DeleteDeselects(c) PROVE RailType'
  BY <1>1, <1>5 DEF SelectClears, DeleteDeselects
<1>6. ASSUME NEW c \in Commands, NEW p \in Projects, SelectChecks(c, p) \/ DeleteRemoves(c, p) PROVE RailType'
  BY <1>2, <1>6 DEF SelectChecks, DeleteRemoves
<1>7. ASSUME AgentReset \/ \E p \in Projects : CreateProject(p) PROVE RailType'
  <2>1. rail' = rail
    BY <1>7 DEF AgentReset, CreateProject, railvars
  <2> QED BY <1>3, <2>1
<1> QED BY <1>4, <1>5, <1>6, <1>7 DEF RailStep

\* A selected project is one of the projects.
LEMMA RailSelects ==
  ASSUME RailType, RailStep, existing \subseteq Projects, selected \in Projects \cup {NoProject}
  PROVE  existing' \subseteq Projects /\ selected' \in Projects \cup {NoProject}
<1>1. ASSUME NEW c \in Commands, SelectSets(c) PROVE existing' = existing /\ selected' \in Projects
  <2>1. rail[c].at = "checked" /\ selected' = rail[c].project /\ existing' = existing
    BY <1>1 DEF SelectSets
  <2>2. rail[c] \in {Resting} \cup [at : {"checked", "switched", "deleted"}, project : Projects]
    BY DEF RailType
  <2> QED BY <2>1, <2>2 DEF Resting
<1>2. ASSUME NEW c \in Commands, SelectClears(c) \/ DeleteDeselects(c)
      PROVE  existing' = existing /\ selected' \in {selected, NoProject}
  BY <1>2 DEF SelectClears, DeleteDeselects
<1>3. ASSUME NEW c \in Commands, NEW p \in Projects, SelectChecks(c, p) \/ DeleteRemoves(c, p)
      PROVE  existing' \subseteq existing /\ selected' = selected
  BY <1>3 DEF SelectChecks, DeleteRemoves
<1>4. ASSUME AgentReset \/ \E p \in Projects : CreateProject(p)
      PROVE  existing' \subseteq existing \cup Projects /\ selected' = selected
  BY <1>4 DEF AgentReset, CreateProject, railvars
<1> QED BY <1>1, <1>2, <1>3, <1>4 DEF RailStep

\* No command of the project rail moves a turn.
LEMMA RailTyped == ASSUME TypesInv, SessionInv', RailStep PROVE TypesInv'
<1>1. UNCHANGED turnvars /\ (conversation' = conversation \/ conversation' = <<>>)
  BY DEF RailStep, AgentReset, CreateProject, SelectChecks, DeleteRemoves, SelectSets, SelectClears,
         DeleteDeselects
<1>2. IsConversation(conversation)'
  <2>1. CASE conversation' = conversation
    BY <2>1 DEF TypesInv, TypeOK, IsConversation
  <2>2. CASE conversation' = <<>>
    BY <2>2 DEF IsConversation
  <2> QED BY <1>1, <2>1, <2>2
<1>3. existing' \subseteq Projects /\ selected' \in Projects \cup {NoProject}
  BY RailSelects DEF TypesInv, TypeOK, RailType
<1>4. RailType'
  BY RailStepTyped DEF TypesInv, TypeOK, RailType
<1>5. era' \in Eras /\ crossed' \subseteq Turns
  BY SessionAssumption DEF TypesInv, TypeOK, RailStep, AgentReset, CreateProject, SelectChecks, DeleteRemoves,
     SelectSets, SelectClears, DeleteDeselects, railvars, NewEra, Eras, InFlight
<1>6. \A t \in Turns : IsConversation(messages[t])' /\ Budget(t)'
  BY <1>1 DEF TypesInv, TypeOK, IsConversation, Budget, turnvars
<1> QED BY <1>1, <1>2, <1>3, <1>4, <1>5, <1>6 DEF TypesInv, TypeOK, RailType, turnvars

\* Turn t moves, and the rest of the turns and the rail's state stay.
LEMMA OwnTyped ==
  ASSUME TypesInv, SessionInv', NEW t \in Turns,
         NEW to \in {"new", "stream", "dispatch", "persist", "done"}, NEW ms, NEW n \in 0..MaxIterations,
         NEW ps \in Seq(Ids), NEW bs \in Seq(Ids), NEW rs \in Seq(Eras),
         existing' \subseteq Projects, selected' \in Projects \cup {NoProject},
         UNCHANGED <<rail, era, crossed>>, IsConversation(conversation)', IsConversation(ms),
         pc' = [pc EXCEPT ![t] = to], messages' = [messages EXCEPT ![t] = ms],
         iteration' = [iteration EXCEPT ![t] = n], pending' = [pending EXCEPT ![t] = ps],
         blocks' = [blocks EXCEPT ![t] = bs], ran' = [ran EXCEPT ![t] = rs],
         to \in {"new", "stream"} => Len(rs) <= n * MaxCalls,
         to = "dispatch" => n < MaxIterations /\ Len(rs) + Len(ps) <= n * MaxCalls + MaxCalls
  PROVE  TypesInv'
<1>1. ASSUME NEW u \in Turns PROVE IsConversation(messages[u])' /\ Budget(u)'
  <2>1. CASE u = t
    <3>1. pc'[u] = to /\ messages'[u] = ms /\ iteration'[u] = n /\ pending'[u] = ps /\ ran'[u] = rs
      BY <2>1 DEF TypesInv, TypeOK, SessionInv, SessionType
    <3> QED BY <3>1 DEF IsConversation, Budget
  <2>2. CASE u # t
    <3>1. /\ pc'[u] = pc[u] /\ messages'[u] = messages[u] /\ iteration'[u] = iteration[u]
          /\ pending'[u] = pending[u] /\ ran'[u] = ran[u]
      BY <2>2 DEF TypesInv, TypeOK, SessionInv, SessionType
    <3> QED BY <3>1 DEF TypesInv, TypeOK, IsConversation, Budget
  <2> QED BY <2>1, <2>2
<1>2. /\ pc' \in [Turns -> {"new", "stream", "dispatch", "persist", "done"}]
      /\ iteration' \in [Turns -> 0..MaxIterations] /\ pending' \in [Turns -> Seq(Ids)]
      /\ blocks' \in [Turns -> Seq(Ids)] /\ ran' \in [Turns -> Seq(Eras)]
  BY DEF TypesInv, TypeOK
<1> QED BY <1>1, <1>2 DEF TypesInv, TypeOK

\* A turn's step, by what it writes.
LEMMA TurnTyped == ASSUME TypesInv, SessionInv', NEW t \in Turns, TurnStep(t) PROVE TypesInv'
<1> DEFINE ms == messages[t]
           n == iteration[t]
           ps == pending[t]
           bs == blocks[t]
           rs == ran[t]
<1>0. /\ ms \in Seq(Messages) /\ IsConversation(ms) /\ n \in 0..MaxIterations /\ ps \in Seq(Ids)
      /\ bs \in Seq(Ids) /\ rs \in Seq(Eras) /\ Budget(t) /\ conversation \in Seq(Messages)
      /\ IsConversation(conversation) /\ era \in Eras
      /\ existing \subseteq Projects /\ selected \in Projects \cup {NoProject}
  BY DEF TypesInv, TypeOK, SessionInv, SessionType
<1>a. /\ messages = [messages EXCEPT ![t] = ms] /\ iteration = [iteration EXCEPT ![t] = n]
      /\ pending = [pending EXCEPT ![t] = ps] /\ blocks = [blocks EXCEPT ![t] = bs]
      /\ ran = [ran EXCEPT ![t] = rs]
  BY DEF TypesInv, TypeOK, SessionInv, SessionType
<1>b. Len(rs) \in Nat /\ Len(ps) \in Nat /\ <<>> \in Seq(Ids) /\ Len(<<>>) = 0
  BY <1>0, LenProperties, EmptySeq
<1>1. CASE Send(t)
  <2> DEFINE new == Append(conversation, Message("user", <<>>))
  <2>1. IsConversation(new)
    BY <1>0, <1>b, ConversationGrows DEF Kinds
  <2>2. /\ UNCHANGED <<existing, selected, rail, era, crossed, conversation, iteration, pending, blocks, ran>>
        /\ pc[t] = "new" /\ pc' = [pc EXCEPT ![t] = "stream"] /\ messages' = [messages EXCEPT ![t] = new]
    BY <1>1 DEF Send, Goto, railvars
  <2>3. Len(rs) <= n * MaxCalls
    BY <1>0, <2>2 DEF Budget
  <2>4. IsConversation(conversation)'
    BY <1>0, <2>2 DEF IsConversation
  <2>5. /\ existing' \subseteq Projects /\ selected' \in Projects \cup {NoProject} /\ UNCHANGED <<rail, era, crossed>>
        /\ iteration' = [iteration EXCEPT ![t] = n] /\ pending' = [pending EXCEPT ![t] = ps]
        /\ blocks' = [blocks EXCEPT ![t] = bs] /\ ran' = [ran EXCEPT ![t] = rs]
    BY <1>0, <1>a, <2>2
  <2> HIDE DEF ms, n, ps, bs, rs, new
  <2>6. pc' = [pc EXCEPT ![t] = "stream"] /\ messages' = [messages EXCEPT ![t] = new]
    BY <2>2
  <2> QED BY <1>0, <2>1, <2>3, <2>4, <2>5, <2>6, OwnTyped
<1>2. CASE StreamFails(t) \/ LoopLimitExceeded(t)
  <2>1. /\ UNCHANGED <<existing, selected, rail, era, crossed, conversation, messages, iteration, pending, blocks, ran>>
        /\ pc' = [pc EXCEPT ![t] = "persist"]
    BY <1>2 DEF StreamFails, LoopLimitExceeded, Goto, railvars
  <2>2. IsConversation(conversation)'
    BY <1>0, <2>1 DEF IsConversation
  <2>3. /\ existing' \subseteq Projects /\ selected' \in Projects \cup {NoProject} /\ UNCHANGED <<rail, era, crossed>>
        /\ messages' = [messages EXCEPT ![t] = ms] /\ iteration' = [iteration EXCEPT ![t] = n]
        /\ pending' = [pending EXCEPT ![t] = ps]
        /\ blocks' = [blocks EXCEPT ![t] = bs] /\ ran' = [ran EXCEPT ![t] = rs]
    BY <1>0, <1>a, <2>1
  <2> HIDE DEF ms, n, ps, bs, rs
  <2>4. pc' = [pc EXCEPT ![t] = "persist"]
    BY <2>1
  <2> QED BY <1>0, <2>2, <2>3, <2>4, OwnTyped
<1>7. CASE StreamPanics(t)
  <2>1. /\ UNCHANGED <<existing, selected, rail, era, crossed, conversation, messages, iteration, pending, blocks, ran>>
        /\ pc' = [pc EXCEPT ![t] = "done"]
    BY <1>7 DEF StreamPanics, Goto, railvars
  <2>2. IsConversation(conversation)'
    BY <1>0, <2>1 DEF IsConversation
  <2>3. /\ existing' \subseteq Projects /\ selected' \in Projects \cup {NoProject} /\ UNCHANGED <<rail, era, crossed>>
        /\ messages' = [messages EXCEPT ![t] = ms] /\ iteration' = [iteration EXCEPT ![t] = n]
        /\ pending' = [pending EXCEPT ![t] = ps]
        /\ blocks' = [blocks EXCEPT ![t] = bs] /\ ran' = [ran EXCEPT ![t] = rs]
    BY <1>0, <1>a, <2>1
  <2> HIDE DEF ms, n, ps, bs, rs
  <2>4. pc' = [pc EXCEPT ![t] = "done"]
    BY <2>1
  <2> QED BY <1>0, <2>2, <2>3, <2>4, OwnTyped
<1>3. ASSUME NEW text \in BOOLEAN, NEW k \in 0..MaxCalls, Streamed(t, text, k) PROVE TypesInv'
  <2> DEFINE ids == NextIds(t, k)
             new == IF text \/ k > 0 THEN Append(ms, Message("assistant", ids)) ELSE ms
  <2>1. n < MaxIterations /\ Len(rs) <= n * MaxCalls
    BY <1>0, <1>3 DEF Streamed, MayIterate, Goto, Budget
  <2>2. n \in Nat /\ k \in Nat /\ k <= MaxCalls /\ MaxCalls \in Nat /\ MaxIterations * MaxCalls \in Nat
    BY <1>0, SessionAssumption
  <2>3. n * MaxCalls \in Nat /\ n * MaxCalls + MaxCalls <= MaxIterations * MaxCalls
    BY <2>1, <2>2, BudgetGrows
  <2>4. Len(rs) + k <= MaxIterations * MaxCalls /\ Len(rs) + k <= n * MaxCalls + MaxCalls
    <3>1. \A a, b, c, d, e \in Nat : a <= b /\ c <= d /\ b + d <= e => a + c <= e /\ a + c <= b + d
      OBVIOUS
    <3> QED BY <1>b, <2>1, <2>2, <2>3, <3>1
  <2>5. ids \in Seq(Ids) /\ Len(ids) = k
    BY <1>0, <2>4, NewIdsTyped
  <2> HIDE DEF ids
  <2>6. IsConversation(new)
    BY <1>0, <2>5, ConversationGrows DEF Kinds
  <2>7. /\ UNCHANGED <<existing, selected, rail, era, crossed, conversation, iteration, ran>>
        /\ pc' = [pc EXCEPT ![t] = IF k = 0 THEN "persist" ELSE "dispatch"]
        /\ pending' = [pending EXCEPT ![t] = ids] /\ blocks' = [blocks EXCEPT ![t] = <<>>]
    BY <1>3 DEF Streamed, Goto, railvars, ids
  <2>8. messages' = [messages EXCEPT ![t] = new]
    BY <1>3, <1>a DEF Streamed, Push, ids
  <2>9. IsConversation(conversation)'
    BY <1>0, <2>7 DEF IsConversation
  <2> HIDE DEF ms, n, ps, bs, rs, new
  <2>10. CASE k = 0
    BY <1>0, <1>a, <1>b, <2>5, <2>6, <2>7, <2>8, <2>9, <2>10, OwnTyped
  <2>11. CASE k # 0
    BY <1>0, <1>a, <1>b, <2>1, <2>4, <2>5, <2>6, <2>7, <2>8, <2>9, <2>11, OwnTyped
  <2> QED BY <2>10, <2>11
<1>4. CASE Dispatch(t) \/ \E p \in Projects : DispatchCreateProject(t, p)
  <2> DEFINE newps == Tail(ps)
             newbs == Append(bs, Head(ps))
             newrs == Append(rs, era)
  <2>1. Runs(t) /\ UNCHANGED <<rail, era, crossed>>
    BY <1>4 DEF Dispatch, DispatchCreateProject, railvars
  <2>2. existing' \subseteq Projects /\ selected' \in Projects \cup {NoProject}
    BY <1>0, <1>4 DEF Dispatch, DispatchCreateProject, railvars
  <2>3. /\ pc[t] = "dispatch" /\ ps # <<>> /\ UNCHANGED <<conversation, messages, iteration, pc>>
        /\ pending' = [pending EXCEPT ![t] = newps] /\ blocks' = [blocks EXCEPT ![t] = newbs]
        /\ ran' = [ran EXCEPT ![t] = newrs]
    BY <2>1 DEF Runs
  <2>4. newps \in Seq(Ids) /\ Head(ps) \in Ids /\ Len(newps) = Len(ps) - 1
    BY <1>0, <2>3, HeadTailProperties
  <2>5. newbs \in Seq(Ids) /\ newrs \in Seq(Eras) /\ Len(newrs) = Len(rs) + 1
    BY <1>0, <2>4, AppendProperties
  <2>6. pc' = [pc EXCEPT ![t] = "dispatch"]
    BY <2>3 DEF TypesInv, TypeOK
  <2>7. n < MaxIterations /\ Len(newrs) + Len(newps) <= n * MaxCalls + MaxCalls
    <3>1. Len(newrs) + Len(newps) = Len(rs) + Len(ps)
      <4>1. \A a, b \in Nat : (a + 1) + (b - 1) = a + b
        OBVIOUS
      <4> QED BY <1>b, <2>4, <2>5, <4>1
    <3> QED BY <1>0, <2>3, <3>1 DEF Budget
  <2>8. IsConversation(conversation)'
    BY <1>0, <2>3 DEF IsConversation
  <2> HIDE DEF ms, n, ps, bs, rs, newps, newbs, newrs
  <2> QED BY <1>0, <1>a, <2>1, <2>2, <2>3, <2>4, <2>5, <2>6, <2>7, <2>8, OwnTyped
<1>5. CASE Dispatched(t)
  <2> DEFINE new == Append(ms, Message("results", bs))
  <2>1. /\ UNCHANGED <<existing, selected, rail, era, crossed, conversation, pending, blocks, ran>>
        /\ pc[t] = "dispatch" /\ ps = <<>> /\ pc' = [pc EXCEPT ![t] = "stream"]
        /\ messages' = [messages EXCEPT ![t] = new] /\ iteration' = [iteration EXCEPT ![t] = n + 1]
    BY <1>5 DEF Dispatched, Goto, Push, railvars
  <2>2. IsConversation(new)
    BY <1>0, ConversationGrows DEF Kinds
  <2>3. n < MaxIterations /\ Len(rs) + Len(ps) <= n * MaxCalls + MaxCalls
    BY <1>0, <2>1 DEF Budget
  <2>4. n + 1 \in 0..MaxIterations /\ n \in Nat
    BY <1>0, <2>3, SessionAssumption
  <2>5. Len(rs) <= (n + 1) * MaxCalls
    <3>1. (n + 1) * MaxCalls = n * MaxCalls + MaxCalls
      BY <2>3, <2>4, BudgetGrows
    <3>2. Len(rs) + Len(ps) = Len(rs)
      BY <1>b, <2>1
    <3> QED BY <2>3, <3>1, <3>2
  <2>6. IsConversation(conversation)'
    BY <1>0, <2>1 DEF IsConversation
  <2> HIDE DEF ms, n, ps, bs, rs, new
  <2> QED BY <1>0, <1>a, <2>1, <2>2, <2>4, <2>5, <2>6, OwnTyped, ZenonT(60)
<1>6. CASE Persist(t)
  <2>1. /\ UNCHANGED <<existing, selected, rail, era, crossed, messages, iteration, pending, blocks, ran>>
        /\ conversation' = ms /\ pc' = [pc EXCEPT ![t] = "done"]
    BY <1>6 DEF Persist, Goto, railvars
  <2>2. IsConversation(conversation)'
    BY <1>0, <2>1 DEF IsConversation
  <2>3. /\ existing' \subseteq Projects /\ selected' \in Projects \cup {NoProject} /\ UNCHANGED <<rail, era, crossed>>
        /\ messages' = [messages EXCEPT ![t] = ms] /\ iteration' = [iteration EXCEPT ![t] = n]
        /\ pending' = [pending EXCEPT ![t] = ps]
        /\ blocks' = [blocks EXCEPT ![t] = bs] /\ ran' = [ran EXCEPT ![t] = rs]
    BY <1>0, <1>a, <2>1
  <2> HIDE DEF ms, n, ps, bs, rs
  <2>4. pc' = [pc EXCEPT ![t] = "done"]
    BY <2>1
  <2> QED BY <1>0, <2>2, <2>3, <2>4, OwnTyped
<1> QED BY <1>1, <1>2, <1>3, <1>4, <1>5, <1>6, <1>7 DEF TurnStep

\* AgentSession::run asks for no more calls than its iterations may, so every
\* call id and every era stays within its bounds; nothing else is ever stored,
\* selected or dispatched.
THEOREM SessionTypes == Spec => []TypeOK
<1>1. Init => TypesInv
  <2> SUFFICES ASSUME Init PROVE TypesInv
    OBVIOUS
  <2>1. \A S : <<>> \in Seq(S)
    BY EmptySeq
  <2>2. TypeOK
    BY <2>1, SessionAssumption DEF Init, TypeOK, IsConversation, Eras
  <2>3. ASSUME NEW t \in Turns PROVE Budget(t)
    BY SessionAssumption DEF Init, Budget
  <2> QED BY <2>2, <2>3, SessionInit DEF TypesInv
<1>2. TypesInv /\ [Next]_vars => TypesInv'
  <2> SUFFICES ASSUME TypesInv, [Next]_vars PROVE TypesInv'
    OBVIOUS
  <2>1. SessionInv'
    BY SessionStep DEF TypesInv
  <2>2. CASE RailStep
    BY <2>1, <2>2, RailTyped
  <2>3. ASSUME NEW t \in Turns, TurnStep(t) PROVE TypesInv'
    BY <2>1, <2>3, TurnTyped
  <2>4. CASE UNCHANGED vars
    BY <2>1, <2>4 DEF vars, railvars, turnvars, TypesInv, TypeOK, IsConversation, Budget
  <2> QED BY <2>2, <2>3, <2>4 DEF Next
<1>3. TypesInv => TypeOK
  BY DEF TypesInv
<1> QED BY <1>1, <1>2, <1>3, PTL DEF Spec

---------------------------------------------------------------------------
(* Results of an earlier project                                           *)

IdsOf(ids) == {ids[k] : k \in DOMAIN ids}
ResultIds(ms) == UNION {IdsOf(ms[i].ids) : i \in {j \in DOMAIN ms : ms[j].kind = "results"}}

\* The calls that have run, and those of them that ran before the selected
\* project was last left.
Ran == {x \in CallIds : x.n \in 1..Len(ran[x.turn])}
Old == {x \in Ran : ran[x.turn][x.n] # era}

\* Only calls that have run have results; the next to run is the next number.
DatedInv ==
  /\ ResultIds(conversation) \subseteq Ran
  /\ \A t \in Turns : /\ ResultIds(messages[t]) \subseteq Ran /\ IdsOf(blocks[t]) \subseteq Ran
                      /\ \A i \in DOMAIN pending[t] : pending[t][i] = [turn |-> t, n |-> Len(ran[t]) + i]

\* With no turn in flight when the project was left, nothing old is left, but
\* for the moment before select_project clears what is stored.
FreshInv ==
  crossed = {} /\ Cleared =>
    /\ ResultIds(conversation) \cap Old = {}
    /\ \A t \in InFlight : /\ ResultIds(messages[t]) \cap Old = {}
                           /\ pc[t] = "dispatch" => IdsOf(blocks[t]) \cap Old = {}

BleedInv == SessionType /\ RailType /\ DatedInv /\ FreshInv

LEMMA NoIds == ResultIds(<<>>) = {} /\ IdsOf(<<>>) = {}
BY DEF ResultIds, IdsOf

LEMMA IdAppended ==
  ASSUME NEW S, NEW ids \in Seq(S), NEW x \in S
  PROVE IdsOf(Append(ids, x)) = IdsOf(ids) \cup {x}
<1>1. /\ Len(ids) \in Nat /\ DOMAIN ids = 1..Len(ids) /\ DOMAIN Append(ids, x) = 1..(Len(ids) + 1)
      /\ \A i \in 1..Len(ids) : Append(ids, x)[i] = ids[i]
      /\ Append(ids, x)[Len(ids) + 1] = x
  BY Appended
<1> QED BY <1>1 DEF IdsOf

LEMMA ResultsAppended ==
  ASSUME NEW ms \in Seq(Messages), NEW m \in Messages
  PROVE ResultIds(Append(ms, m)) = ResultIds(ms) \cup (IF m.kind = "results" THEN IdsOf(m.ids) ELSE {})
<1> DEFINE new == Append(ms, m)
<1>1. /\ Len(ms) \in Nat /\ DOMAIN ms = 1..Len(ms) /\ DOMAIN new = 1..(Len(ms) + 1)
      /\ \A i \in 1..Len(ms) : new[i] = ms[i]
      /\ new[Len(ms) + 1] = m
  BY Appended
<1> HIDE DEF new
<1>2. \A x : x \in ResultIds(new) <=> \E i \in 1..(Len(ms) + 1) : new[i].kind = "results" /\ x \in IdsOf(new[i].ids)
  BY <1>1 DEF ResultIds
<1>3. \A x : x \in ResultIds(ms) <=> \E i \in 1..Len(ms) : ms[i].kind = "results" /\ x \in IdsOf(ms[i].ids)
  BY <1>1 DEF ResultIds
<1>4. \A i : i \in 1..(Len(ms) + 1) <=> i \in 1..Len(ms) \/ i = Len(ms) + 1
  BY <1>1
<1>5. \A x : x \in ResultIds(new) <=> x \in ResultIds(ms) \/ (m.kind = "results" /\ x \in IdsOf(m.ids))
  BY <1>1, <1>2, <1>3, <1>4
<1> QED BY <1>5 DEF new

LEMMA BledIsOld ==
  ASSUME NEW ms, ResultIds(ms) \subseteq Ran
  PROVE Bled(ms) <=> ResultIds(ms) \cap Old # {}
BY DEF Bled, ResultIds, IdsOf, Old


LEMMA RailKeepsFresh ==
  ASSUME BleedInv, RailStep, SessionType' PROVE BleedInv'
<1> USE NoIds DEF BleedInv
<1>1. UNCHANGED turnvars /\ conversation' \in {conversation, <<>>}
  BY DEF RailStep, AgentReset, CreateProject, SelectChecks, DeleteRemoves, SelectSets, SelectClears,
         DeleteDeselects
<1>2. Ran' = Ran BY <1>1 DEF Ran, turnvars
<1>3. DatedInv' BY <1>1, <1>2 DEF DatedInv, turnvars
<1>4. InFlight' = InFlight BY <1>1 DEF InFlight, turnvars
<1>r. RailType' BY RailStepTyped
<1>5. ASSUME UNCHANGED <<era, crossed>>, Cleared' => Cleared PROVE FreshInv'
  <2>1. Old' = Old BY <1>1, <1>2, <1>5 DEF Old, turnvars
  <2> QED BY <1>1, <1>4, <1>5, <2>1 DEF FreshInv, turnvars
<1>6. ASSUME conversation' = <<>>, InFlight \subseteq crossed' PROVE FreshInv'
  BY <1>4, <1>6 DEF FreshInv
<1>a. ASSUME rail' = rail PROVE Cleared' => Cleared BY <1>a DEF Cleared
<1>b. ASSUME NEW c \in Commands, rail[c].at # "switched", \A d \in Commands \ {c} : rail'[d] = rail[d]
      PROVE Cleared' => Cleared
  BY <1>b DEF Cleared
<1>c. ASSUME NEW c \in Commands, NEW at, NEW p, RailAt(c, at, p)
      PROVE rail'[c].at = at /\ \A d \in Commands \ {c} : rail'[d] = rail[d]
  BY <1>c DEF RailAt, RailType
<1>d. ASSUME NEW c \in Commands, RailEnds(c)
      PROVE \A d \in Commands \ {c} : rail'[d] = rail[d]
  BY <1>d DEF RailEnds, RailType
<1>7. ASSUME AgentReset \/ \E p \in Projects : CreateProject(p) PROVE FreshInv'
  <2>1. UNCHANGED <<rail, era, crossed>> BY <1>7 DEF AgentReset, CreateProject, railvars
  <2>2. Cleared' => Cleared
    <3>1. rail' = rail BY <2>1
    <3> QED BY <1>a, <3>1
  <2>3. UNCHANGED <<era, crossed>> BY <2>1
  <2> QED BY <1>5, <2>2, <2>3
<1>8. ASSUME NEW c \in Commands, NEW p \in Projects, SelectChecks(c, p) \/ DeleteRemoves(c, p) PROVE FreshInv'
  <2>1. /\ UNCHANGED <<era, crossed>> /\ rail[c].at = "idle"
        /\ RailAt(c, "checked", p) \/ RailAt(c, "deleted", p)
    BY <1>8 DEF SelectChecks, DeleteRemoves
  <2>2. \A d \in Commands \ {c} : rail'[d] = rail[d] BY <1>c, <2>1
  <2> QED BY <1>5, <1>b, <2>1, <2>2
<1>9. ASSUME NEW c \in Commands, SelectSets(c) PROVE FreshInv'
  <2>1. CASE selected \in {rail[c].project, NoProject}
    <3>1. /\ UNCHANGED <<era, crossed>> /\ rail[c].at = "checked" /\ RailEnds(c)
      BY <1>9, <2>1 DEF SelectSets, SwitchingAway
    <3>2. \A d \in Commands \ {c} : rail'[d] = rail[d] BY <1>d, <3>1
    <3> QED BY <1>5, <1>b, <3>1, <3>2
  <2>2. CASE selected \notin {rail[c].project, NoProject}
    <3>1. RailAt(c, "switched", rail[c].project) BY <1>9, <2>2 DEF SelectSets, SwitchingAway
    <3>2. rail'[c].at = "switched" BY <1>c, <3>1
    <3>3. ~Cleared' BY <3>2 DEF Cleared
    <3> QED BY <3>3 DEF FreshInv
  <2> QED BY <2>1, <2>2
<1>10. ASSUME NEW c \in Commands, SelectClears(c) PROVE FreshInv' BY <1>6, <1>10 DEF SelectClears
<1>11. ASSUME NEW c \in Commands, DeleteDeselects(c) PROVE FreshInv'
  <2>1. CASE selected = rail[c].project BY <1>6, <1>11, <2>1 DEF DeleteDeselects, NewEra
  <2>2. CASE selected # rail[c].project
    <3>1. /\ UNCHANGED <<era, crossed>> /\ rail[c].at = "deleted" /\ RailEnds(c)
      BY <1>11, <2>2 DEF DeleteDeselects
    <3>2. \A d \in Commands \ {c} : rail'[d] = rail[d] BY <1>d, <3>1
    <3> QED BY <1>5, <1>b, <3>1, <3>2
  <2> QED BY <2>1, <2>2
<1>12. FreshInv' BY <1>7, <1>8, <1>9, <1>10, <1>11 DEF RailStep
<1> QED BY <1>3, <1>r, <1>12

\* Turn t goes to `to', with these messages, calls to run and results.
Moves(t, to, ms, ps, bs) ==
  /\ pc' = [pc EXCEPT ![t] = to] /\ messages' = [messages EXCEPT ![t] = ms]
  /\ pending' = [pending EXCEPT ![t] = ps] /\ blocks' = [blocks EXCEPT ![t] = bs]

\* A step of turn t that runs no call.
LEMMA TurnKeepsFresh ==
  ASSUME BleedInv, SessionType', NEW t \in Turns, UNCHANGED <<era, ran, crossed, rail>>,
         NEW to, NEW ms, NEW ps, NEW bs,
         Moves(t, to, ms, ps, bs),
         \/ conversation' = conversation
         \/ pc[t] = "persist" /\ ResultIds(conversation') = ResultIds(messages[t]),
         \/ pc[t] = "new" /\ ResultIds(ms) = ResultIds(conversation)
         \/ pc[t] \in {"stream", "persist"} /\ ResultIds(ms) = ResultIds(messages[t])
         \/ pc[t] = "dispatch" /\ ResultIds(ms) \subseteq ResultIds(messages[t]) \cup IdsOf(blocks[t]),
         IdsOf(bs) = {} \/ (bs = blocks[t] /\ to # "dispatch"),
         \A i \in DOMAIN ps : ps[i] = [turn |-> t, n |-> Len(ran[t]) + i]
  PROVE BleedInv'
<1>0. SessionType /\ DatedInv /\ FreshInv BY DEF BleedInv
<1>1. Ran' = Ran /\ Old' = Old BY DEF Ran, Old
<1>2. /\ pc'[t] = to /\ messages'[t] = ms /\ pending'[t] = ps /\ blocks'[t] = bs
      /\ \A u \in Turns \ {t} : /\ pc'[u] = pc[u] /\ messages'[u] = messages[u]
                                /\ pending'[u] = pending[u] /\ blocks'[u] = blocks[u]
  BY <1>0 DEF SessionType, Moves
<1>3. DatedInv'
  <2>1. ResultIds(conversation') \subseteq Ran BY <1>0 DEF DatedInv
  <2>2. ASSUME NEW u \in Turns
        PROVE /\ ResultIds(messages'[u]) \subseteq Ran /\ IdsOf(blocks'[u]) \subseteq Ran
              /\ \A i \in DOMAIN pending'[u] : pending'[u][i] = [turn |-> u, n |-> Len(ran[u]) + i]
    <3>1. CASE u = t BY <1>0, <1>2, <3>1 DEF DatedInv
    <3>2. CASE u # t BY <1>0, <1>2, <3>2 DEF DatedInv
    <3> QED BY <3>1, <3>2
  <2> QED BY <1>1, <2>1, <2>2 DEF DatedInv
<1>4. FreshInv'
  <2> SUFFICES ASSUME crossed = {}, Cleared
               PROVE /\ ResultIds(conversation') \cap Old = {}
                     /\ \A u \in InFlight' : /\ ResultIds(messages'[u]) \cap Old = {}
                                             /\ pc'[u] = "dispatch" => IdsOf(blocks'[u]) \cap Old = {}
    BY <1>1 DEF FreshInv, Cleared
  <2>1. /\ ResultIds(conversation) \cap Old = {}
        /\ \A u \in InFlight : /\ ResultIds(messages[u]) \cap Old = {}
                               /\ pc[u] = "dispatch" => IdsOf(blocks[u]) \cap Old = {}
    BY <1>0 DEF FreshInv
  <2>2. pc[t] \in {"stream", "persist", "dispatch"} => t \in InFlight BY DEF InFlight
  <2>3. ResultIds(conversation') \cap Old = {} BY <2>1, <2>2
  <2>4. ResultIds(ms) \cap Old = {} BY <2>1, <2>2
  <2>5. ASSUME NEW u \in InFlight'
        PROVE /\ ResultIds(messages'[u]) \cap Old = {}
              /\ pc'[u] = "dispatch" => IdsOf(blocks'[u]) \cap Old = {}
    <3>1. CASE u = t BY <1>2, <2>4, <3>1
    <3>2. CASE u # t
      <4>1. u \in InFlight /\ u \in Turns BY <1>2, <3>2 DEF InFlight
      <4> QED BY <1>2, <2>1, <3>2, <4>1
    <3> QED BY <3>1, <3>2
  <2> QED BY <2>3, <2>5
<1>5. RailType' BY DEF BleedInv, RailType
<1> QED BY <1>3, <1>4, <1>5 DEF BleedInv

\* A call that runs gets a result of this era.
LEMMA RunKeepsFresh ==
  ASSUME BleedInv, SessionType', NEW t \in Turns, Runs(t), UNCHANGED <<era, crossed, rail>>
  PROVE BleedInv'
<1>0. SessionType /\ DatedInv /\ FreshInv BY DEF BleedInv
<1> DEFINE x == Head(pending[t])
<1>1. /\ pc[t] = "dispatch" /\ pending[t] # <<>> /\ UNCHANGED <<pc, messages, conversation>>
      /\ pending' = [pending EXCEPT ![t] = Tail(pending[t])]
      /\ blocks' = [blocks EXCEPT ![t] = Append(blocks[t], x)]
      /\ ran' = [ran EXCEPT ![t] = Append(ran[t], era)]
  BY DEF Runs
<1>2. pending[t] \in Seq(CallIds) /\ blocks[t] \in Seq(CallIds) /\ ran[t] \in Seq(Nat) /\ era \in Nat
  BY <1>0 DEF SessionType
<1>3. /\ x \in CallIds /\ x = [turn |-> t, n |-> Len(ran[t]) + 1]
      /\ \A i \in DOMAIN Tail(pending[t]) : Tail(pending[t])[i] = [turn |-> t, n |-> Len(ran[t]) + 1 + i]
  <2>1. /\ x = pending[t][1] /\ Len(pending[t]) \in Nat \ {0} /\ DOMAIN pending[t] = 1..Len(pending[t])
        /\ DOMAIN Tail(pending[t]) = 1..(Len(pending[t]) - 1)
        /\ \A i \in 1..(Len(pending[t]) - 1) : Tail(pending[t])[i] = pending[t][i + 1]
    BY <1>1, <1>2, EmptySeq, HeadTailProperties, LenProperties
  <2>2. \A i \in DOMAIN pending[t] : pending[t][i] = [turn |-> t, n |-> Len(ran[t]) + i]
    BY <1>0 DEF DatedInv
  <2>3. x \in CallIds BY <1>1, <1>2, HeadTailProperties
  <2>4. x = [turn |-> t, n |-> Len(ran[t]) + 1]
    <3>1. 1 \in DOMAIN pending[t] BY <2>1
    <3>2. pending[t][1] = [turn |-> t, n |-> Len(ran[t]) + 1] BY <2>2, <3>1
    <3> QED BY <2>1, <3>2
  <2>5. Len(ran[t]) \in Nat BY <1>2, LenProperties
  <2>6. ASSUME NEW i \in DOMAIN Tail(pending[t])
        PROVE Tail(pending[t])[i] = [turn |-> t, n |-> Len(ran[t]) + 1 + i]
    <3>1. i \in Nat /\ i + 1 \in DOMAIN pending[t] /\ Tail(pending[t])[i] = pending[t][i + 1]
      BY <2>1
    <3>2. \A a, b \in Nat : a + (b + 1) = a + 1 + b OBVIOUS
    <3>3. Len(ran[t]) + (i + 1) = Len(ran[t]) + 1 + i BY <2>5, <3>1, <3>2
    <3> QED BY <2>2, <3>1, <3>3
  <2> QED BY <2>3, <2>4, <2>6
<1> HIDE DEF x
<1>4. /\ Len(ran[t]) \in Nat /\ Len(ran'[t]) = Len(ran[t]) + 1 /\ ran'[t][Len(ran[t]) + 1] = era
      /\ \A i \in 1..Len(ran[t]) : ran'[t][i] = ran[t][i]
      /\ \A u \in Turns \ {t} : ran'[u] = ran[u]
  <2>1. ran'[t] = Append(ran[t], era) /\ \A u \in Turns \ {t} : ran'[u] = ran[u]
    BY <1>0, <1>1 DEF SessionType
  <2> QED BY <1>2, <2>1, Appended
<1>5. Ran \subseteq Ran' /\ x \in Ran' /\ x \notin Old' /\ Old' \cap Ran \subseteq Old
  <2>1. \A y \in CallIds : y.turn \in Turns /\ y.n \in Nat BY DEF CallIds
  <2>2. x.turn = t /\ x.n = Len(ran[t]) + 1 BY <1>3
  <2>3. ASSUME NEW y \in Ran PROVE y \in Ran' /\ ran'[y.turn][y.n] = ran[y.turn][y.n]
    <3>1. y \in CallIds /\ y.n \in 1..Len(ran[y.turn]) BY DEF Ran
    <3>2. CASE y.turn = t BY <1>4, <3>1, <3>2 DEF Ran
    <3>3. CASE y.turn # t BY <1>4, <2>1, <3>1, <3>3 DEF Ran
    <3> QED BY <3>2, <3>3
  <2>4. x \in Ran' /\ x \notin Old' BY <1>3, <1>4, <2>2 DEF Ran, Old
  <2>5. Old' \cap Ran \subseteq Old BY <2>3 DEF Old
  <2> QED BY <2>3, <2>4, <2>5
<1>6. /\ blocks'[t] = Append(blocks[t], x) /\ pending'[t] = Tail(pending[t])
      /\ IdsOf(blocks'[t]) = IdsOf(blocks[t]) \cup {x}
      /\ \A u \in Turns \ {t} : blocks'[u] = blocks[u] /\ pending'[u] = pending[u]
  <2>1. /\ blocks'[t] = Append(blocks[t], x) /\ pending'[t] = Tail(pending[t])
        /\ \A u \in Turns \ {t} : blocks'[u] = blocks[u] /\ pending'[u] = pending[u]
    BY <1>0, <1>1 DEF SessionType
  <2> QED BY <1>2, <1>3, <2>1, IdAppended
<1>7. DatedInv'
  <2>1. ResultIds(conversation') \subseteq Ran' BY <1>0, <1>1, <1>5 DEF DatedInv
  <2>2. ASSUME NEW u \in Turns
        PROVE ResultIds(messages'[u]) \subseteq Ran' /\ IdsOf(blocks'[u]) \subseteq Ran'
    <3>1. ResultIds(messages[u]) \subseteq Ran /\ IdsOf(blocks[u]) \subseteq Ran BY <1>0 DEF DatedInv
    <3>2. CASE u = t BY <1>1, <1>5, <1>6, <3>1, <3>2
    <3>3. CASE u # t BY <1>1, <1>5, <1>6, <3>1, <3>3
    <3> QED BY <3>2, <3>3
  <2>3. ASSUME NEW u \in Turns, NEW i \in DOMAIN pending'[u]
        PROVE pending'[u][i] = [turn |-> u, n |-> Len(ran'[u]) + i]
    <3>1. CASE u = t BY <1>3, <1>4, <1>6, <3>1
    <3>2. CASE u # t
      <4>1. pending'[u] = pending[u] /\ ran'[u] = ran[u]
        BY <1>4, <1>6, <3>2
      <4> QED BY <1>0, <4>1, SMTT(30) DEF DatedInv
    <3> QED BY <3>1, <3>2
  <2> QED BY <2>1, <2>2, <2>3 DEF DatedInv
<1>8. FreshInv'
  <2> SUFFICES ASSUME crossed = {}, Cleared
               PROVE /\ ResultIds(conversation) \cap Old' = {}
                     /\ \A u \in InFlight : /\ ResultIds(messages[u]) \cap Old' = {}
                                            /\ pc[u] = "dispatch" => IdsOf(blocks'[u]) \cap Old' = {}
    BY <1>1 DEF FreshInv, Cleared, InFlight
  <2>1. /\ ResultIds(conversation) \cap Old = {}
        /\ \A u \in InFlight : /\ ResultIds(messages[u]) \cap Old = {}
                               /\ pc[u] = "dispatch" => IdsOf(blocks[u]) \cap Old = {}
    BY <1>0 DEF FreshInv
  <2>2. /\ ResultIds(conversation) \subseteq Ran
        /\ \A u \in Turns : ResultIds(messages[u]) \subseteq Ran /\ IdsOf(blocks[u]) \subseteq Ran
    BY <1>0 DEF DatedInv
  <2>3. ASSUME NEW u \in InFlight, pc[u] = "dispatch" PROVE IdsOf(blocks'[u]) \cap Old' = {}
    <3>0. u \in Turns BY DEF InFlight
    <3>1. CASE u = t BY <1>5, <1>6, <2>1, <2>2, <2>3, <3>1
    <3>2. CASE u # t BY <1>5, <1>6, <2>1, <2>2, <2>3, <3>0, <3>2
    <3> QED BY <3>1, <3>2
  <2>4. ASSUME NEW u \in InFlight PROVE ResultIds(messages[u]) \cap Old' = {}
    <3>0. u \in Turns BY DEF InFlight
    <3> QED BY <1>5, <2>1, <2>2, <3>0
  <2> QED BY <1>5, <2>1, <2>2, <2>3, <2>4
<1>9. RailType' BY DEF BleedInv, RailType
<1> QED BY <1>7, <1>8, <1>9 DEF BleedInv


LEMMA BleedStep ==
  ASSUME BleedInv, SessionType', [Next]_vars PROVE BleedInv'
<1>0. SessionType /\ DatedInv /\ FreshInv BY DEF BleedInv
<1>1. CASE RailStep BY <1>1, RailKeepsFresh
<1>2. ASSUME NEW t \in Turns, TurnStep(t) PROVE BleedInv'
  <2> DEFINE ms == messages[t]
             ps == pending[t]
             bs == blocks[t]
  <2>a. ms \in Seq(Messages) /\ ps \in Seq(CallIds) /\ bs \in Seq(CallIds) BY <1>0 DEF SessionType
  <2>b. /\ messages = [messages EXCEPT ![t] = ms] /\ pending = [pending EXCEPT ![t] = ps]
        /\ blocks = [blocks EXCEPT ![t] = bs] /\ pc = [pc EXCEPT ![t] = pc[t]]
    BY <1>0 DEF SessionType
  <2>c. \A i \in DOMAIN ps : ps[i] = [turn |-> t, n |-> Len(ran[t]) + i] BY <1>0 DEF DatedInv
  <2>d. ms = messages[t] /\ bs = blocks[t] OBVIOUS
  <2>1. CASE Send(t)
    <3> DEFINE new == Append(conversation, UserMessage)
    <3>1. /\ UNCHANGED <<era, ran, crossed, rail, conversation, pending, blocks>> /\ pc[t] = "new"
          /\ pc' = [pc EXCEPT ![t] = "stream"] /\ messages' = [messages EXCEPT ![t] = new]
      BY <2>1 DEF Send, Goto, railvars, UserMessage
    <3>2. UserMessage \in Messages /\ UserMessage.kind # "results"
      BY EmptySeq DEF UserMessage, Message, Messages, Kinds
    <3>3. ResultIds(new) = ResultIds(conversation) BY <1>0, <3>2, ResultsAppended DEF SessionType
    <3>4. Moves(t, "stream", new, ps, bs) BY <2>b, <3>1 DEF Moves
    <3> HIDE DEF new, ms, ps, bs
    <3> QED BY <2>c, <2>d, <3>1, <3>3, <3>4, TurnKeepsFresh
  <2>2. CASE StreamFails(t) \/ LoopLimitExceeded(t)
    <3>1. /\ UNCHANGED <<era, ran, crossed, rail, conversation, messages, pending, blocks>> /\ pc[t] = "stream"
          /\ pc' = [pc EXCEPT ![t] = "persist"]
      BY <2>2 DEF StreamFails, LoopLimitExceeded, Goto, railvars
    <3>2. Moves(t, "persist", ms, ps, bs) BY <2>b, <3>1 DEF Moves
    <3> HIDE DEF ms, ps, bs
    <3> QED BY <2>c, <2>d, <3>1, <3>2, TurnKeepsFresh
  <2>7. CASE StreamPanics(t)
    <3>1. /\ UNCHANGED <<era, ran, crossed, rail, conversation, messages, pending, blocks>> /\ pc[t] = "stream"
          /\ pc' = [pc EXCEPT ![t] = "done"]
      BY <2>7 DEF StreamPanics, Goto, railvars
    <3>2. Moves(t, "done", ms, ps, bs) BY <2>b, <3>1 DEF Moves
    <3> HIDE DEF ms, ps, bs
    <3> QED BY <2>c, <2>d, <3>1, <3>2, TurnKeepsFresh
  <2>3. ASSUME NEW text \in BOOLEAN, NEW n \in 0..MaxCalls, Streamed(t, text, n) PROVE BleedInv'
    <3> DEFINE ids == NextIds(t, n)
               m == Message("assistant", ids)
               new == IF text \/ n > 0 THEN Append(ms, m) ELSE ms
    <3>1. n \in Nat BY SessionAssumption
    <3>2. ids \in Seq(CallIds) BY <1>0, <3>1, NewIds
    <3>3. \A i \in DOMAIN ids : ids[i] = [turn |-> t, n |-> Len(ran[t]) + i] BY DEF NextIds
    <3> HIDE DEF ids
    <3>4. m \in Messages /\ m.kind # "results" BY <3>2 DEF Message, Messages, Kinds
    <3>5. ResultIds(new) = ResultIds(ms) BY <2>a, <3>4, ResultsAppended
    <3>6. /\ UNCHANGED <<era, ran, crossed, rail, conversation>> /\ pc[t] = "stream"
          /\ pc' = [pc EXCEPT ![t] = IF n = 0 THEN "persist" ELSE "dispatch"]
          /\ pending' = [pending EXCEPT ![t] = ids] /\ blocks' = [blocks EXCEPT ![t] = <<>>]
      BY <2>3 DEF Streamed, Goto, railvars, ids
    <3>7. messages' = [messages EXCEPT ![t] = new] BY <2>3, <2>b DEF Streamed, Push, ids
    <3> HIDE DEF new
    <3>8. PICK to, none : Moves(t, to, new, ids, none) /\ IdsOf(none) = {} BY <3>6, <3>7, NoIds DEF Moves
    <3>9. UNCHANGED <<era, ran, crossed, rail, conversation>> /\ pc[t] = "stream" BY <3>6
    <3> HIDE DEF ms, ps, bs
    <3> QED BY <2>d, <3>3, <3>5, <3>8, <3>9, TurnKeepsFresh
  <2>4. CASE Dispatch(t) \/ \E p \in Projects : DispatchCreateProject(t, p)
    <3>1. Runs(t) /\ UNCHANGED <<era, crossed, rail>> BY <2>4 DEF Dispatch, DispatchCreateProject, railvars
    <3> QED BY <3>1, RunKeepsFresh
  <2>5. CASE Dispatched(t)
    <3> DEFINE m == Message("results", bs)
               new == Append(ms, m)
    <3>1. /\ UNCHANGED <<era, ran, crossed, rail, conversation, pending, blocks>> /\ pc[t] = "dispatch"
          /\ pc' = [pc EXCEPT ![t] = "stream"] /\ messages' = [messages EXCEPT ![t] = new]
      BY <2>5 DEF Dispatched, Goto, Push, railvars
    <3>2. m \in Messages /\ m.ids = bs BY <2>a DEF Message, Messages, Kinds
    <3>3. ResultIds(new) \subseteq ResultIds(ms) \cup IdsOf(bs) BY <2>a, <3>2, ResultsAppended
    <3>4. Moves(t, "stream", new, ps, bs) BY <2>b, <3>1 DEF Moves
    <3> HIDE DEF new, ms, ps, bs
    <3> QED BY <2>c, <2>d, <3>1, <3>3, <3>4, TurnKeepsFresh
  <2>6. CASE Persist(t)
    <3>1. /\ UNCHANGED <<era, ran, crossed, rail, messages, pending, blocks>> /\ pc[t] = "persist"
          /\ pc' = [pc EXCEPT ![t] = "done"] /\ conversation' = ms
      BY <2>6 DEF Persist, Goto, railvars
    <3>2. Moves(t, "done", ms, ps, bs) BY <2>b, <3>1 DEF Moves
    <3> HIDE DEF ms, ps, bs
    <3> QED BY <2>c, <2>d, <3>1, <3>2, TurnKeepsFresh
  <2> QED BY <1>2, <2>1, <2>2, <2>3, <2>4, <2>5, <2>6, <2>7 DEF TurnStep
<1>3. CASE UNCHANGED vars
  <2>1. UNCHANGED <<railvars, conversation, turnvars>> BY <1>3 DEF vars
  <2>2. Ran' = Ran /\ Old' = Old /\ InFlight' = InFlight BY <2>1 DEF railvars, turnvars, Ran, Old, InFlight
  <2>3. DatedInv' BY <1>0, <2>1, <2>2 DEF turnvars, DatedInv
  <2>4. FreshInv' BY <1>0, <2>1, <2>2 DEF railvars, turnvars, FreshInv, Cleared
  <2>5. RailType' BY <2>1 DEF BleedInv, RailType, railvars
  <2> QED BY <2>3, <2>4, <2>5 DEF BleedInv
<1> QED BY <1>1, <1>2, <1>3 DEF Next

\* Leaving a project with no turn in flight leaves nothing of it behind: the
\* only results that outlive it are those of a turn that select_project or
\* delete_project crossed.
THEOREM BleedsThroughTurns == Spec => []BleedNeedsTurnInFlight
<1>1. Init => BleedInv
  <2> SUFFICES ASSUME Init PROVE BleedInv OBVIOUS
  <2>1. SessionType BY SessionInit DEF SessionInv
  <2>2. DatedInv BY NoIds DEF Init, DatedInv
  <2>3. FreshInv BY NoIds DEF Init, FreshInv, InFlight
  <2>4. RailType BY DEF Init, RailType
  <2> QED BY <2>1, <2>2, <2>3, <2>4 DEF BleedInv
<1>2. SessionInv /\ BleedInv /\ [Next]_vars => (SessionInv /\ BleedInv)'
  <2> SUFFICES ASSUME SessionInv, BleedInv, [Next]_vars PROVE (SessionInv /\ BleedInv)' OBVIOUS
  <2>1. SessionInv' BY SessionStep
  <2>2. SessionType' BY <2>1 DEF SessionInv
  <2> QED BY <2>1, <2>2, BleedStep
<1>3. BleedInv => BleedNeedsTurnInFlight
  <2> SUFFICES ASSUME BleedInv, Cleared, crossed = {} PROVE ~Bled(conversation)
    BY DEF BleedNeedsTurnInFlight
  <2>1. ResultIds(conversation) \subseteq Ran /\ ResultIds(conversation) \cap Old = {}
    BY DEF BleedInv, DatedInv, FreshInv
  <2> QED BY <2>1, BledIsOld
<1> QED BY SessionInit, <1>1, <1>2, <1>3, PTL DEF Spec

=============================================================================
