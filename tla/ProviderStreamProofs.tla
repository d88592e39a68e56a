------------------------ MODULE ProviderStreamProofs ------------------------
(* How a stream ends for its reader, whatever a server sends, in whatever   *)
(* chunks, and wherever the connection is lost.                             *)
EXTENDS ProviderStream, SequenceTheorems, WellFoundedInduction, TLAPS

\* A sequence of events, which may be any values.
IsSeq(s) == \E S : s \in Seq(S)

IsStop(e) == e.type = "Stop"

\* A reader in its loop has seen no Stop, and a pump that has returned left one.
ChannelInv ==
  /\ IsSeq(sent) /\ read \in Nat /\ read <= Len(sent)
  /\ at = "reading" => \A i \in 1..read : ~IsStop(sent[i])
  /\ at = "reading" /\ pump = "closed" => \E i \in 1..Len(sent) : IsStop(sent[i])

---------------------------------------------------------------------------
LEMMA Joined ==
  ASSUME NEW s, NEW u, IsSeq(s), IsSeq(u)
  PROVE /\ IsSeq(s \o u) /\ Len(s) \in Nat /\ Len(u) \in Nat /\ Len(s \o u) = Len(s) + Len(u)
        /\ \A i \in 1..Len(s) : (s \o u)[i] = s[i]
        /\ \A i \in 1..Len(u) : (s \o u)[Len(s) + i] = u[i]
<1>1. PICK S : s \in Seq(S) BY DEF IsSeq
<1>2. PICK T : u \in Seq(T) BY DEF IsSeq
<1>3. s \in Seq(S \cup T) /\ u \in Seq(S \cup T) BY <1>1, <1>2, SeqMonotonic
<1>4. /\ s \o u \in Seq(S \cup T) /\ Len(s \o u) = Len(s) + Len(u)
      /\ \A i \in 1..(Len(s) + Len(u)) : (s \o u)[i] = IF i <= Len(s) THEN s[i] ELSE u[i - Len(s)]
  BY <1>3, ConcatProperties
<1>5. Len(s) \in Nat /\ Len(u) \in Nat BY <1>3, LenProperties
<1>6. \A i \in 1..Len(s) : (s \o u)[i] = s[i] BY <1>4, <1>5
<1>7. \A i \in 1..Len(u) : (s \o u)[Len(s) + i] = u[i] BY <1>4, <1>5
<1> QED BY <1>4, <1>5, <1>6, <1>7 DEF IsSeq

LEMMA Short ==
  ASSUME NEW d, NEW e
  PROVE IsSeq(<<>>) /\ IsSeq(<<e>>) /\ IsSeq(<<d, e>>) /\ Len(<<e>>) = 1 /\ <<e>>[1] = e
<1>1. <<e>> \in Seq({d, e}) /\ <<d, e>> \in Seq({d, e}) /\ <<>> \in Seq({d, e}) OBVIOUS
<1> QED BY <1>1 DEF IsSeq

LEMMA Appended == ASSUME NEW s, IsSeq(s), NEW e PROVE Append(s, e) = s \o <<e>>
<1>1. PICK S : s \in Seq(S) BY DEF IsSeq
<1>2. s \in Seq(S \cup {e}) BY <1>1, SeqMonotonic
<1> QED BY <1>2, AppendIsConcat

LEMMA MinOfTwo == ASSUME NEW a \in Nat, NEW b \in Nat, a <= b PROVE Min({a, b}) = a
<1>1. \A x \in {a, b} : (\A y \in {a, b} : x =< y) <=> x = a OBVIOUS
<1>2. \E x \in {a, b} : \A y \in {a, b} : x =< y BY <1>1
<1>3. Min({a, b}) = CHOOSE x \in {a, b} : \A y \in {a, b} : x =< y BY DEF Min
<1> QED BY <1>1, <1>2, <1>3

---------------------------------------------------------------------------
\* The pump adds to the channel, and does not return without a Stop.
LEMMA PumpAdds ==
  ASSUME ChannelInv, Pump
  PROVE /\ UNCHANGED <<at, read>>
        /\ \E u : IsSeq(u) /\ sent' = sent \o u
                  /\ (pump' = "closed" => \E j \in 1..Len(u) : IsStop(u[j]))
<1>0. IsSeq(sent) BY DEF ChannelInv
<1> DEFINE Adds(u) == IsSeq(u) /\ sent' = sent \o u /\ (pump' = "closed" => \E j \in 1..Len(u) : IsStop(u[j]))
<1>1. ASSUME sent' = sent, pump' # "closed" PROVE \E u : Adds(u)
  <2>1. IsSeq(<<>>) BY Short
  <2>2. PICK S : sent \in Seq(S) BY <1>0 DEF IsSeq
  <2>3. sent \o <<>> = sent BY <2>2, ConcatEmptySeq
  <2> QED BY <1>1, <2>1, <2>3
<1>2. ASSUME NEW e, sent' = Append(sent, e), pump' = "closed" => IsStop(e) PROVE \E u : Adds(u)
  <2>1. IsSeq(<<e>>) /\ Len(<<e>>) = 1 /\ <<e>>[1] = e BY Short
  <2>2. sent' = sent \o <<e>> BY <1>0, <1>2, Appended
  <2>3. Adds(<<e>>) BY <1>2, <2>1, <2>2
  <2> QED BY <2>3
<1>3. ASSUME Dispatch PROVE UNCHANGED <<at, read>> /\ \E u : Adds(u)
  <2>1. PICK e : \/ MessageStart(e) \/ BlockStart(e) \/ TextDelta(e) \/ InputJsonDelta(e)
                 \/ BlockStop(e) \/ MessageDelta(e) \/ ErrorEvent(e) \/ Ignored(e)
    BY <1>3 DEF Dispatch
  <2>2. Takes(e)
    BY <2>1 DEF MessageStart, BlockStart, TextDelta, InputJsonDelta, BlockStop, MessageDelta, ErrorEvent, Ignored
  <2>3. UNCHANGED <<at, read>> /\ pump' # "closed" BY <2>2 DEF Takes, Draining, readervars
  <2> HIDE DEF Adds
  <2>4. CASE MessageStart(e) \/ BlockStart(e) \/ InputJsonDelta(e) \/ MessageDelta(e) \/ Ignored(e)
    BY <1>1, <2>3, <2>4 DEF MessageStart, BlockStart, InputJsonDelta, MessageDelta, Ignored
  <2>5. CASE TextDelta(e) BY <1>2, <2>3, <2>5 DEF TextDelta
  <2>6. CASE ErrorEvent(e) BY <1>2, <2>3, <2>6 DEF ErrorEvent
  <2>7. CASE BlockStop(e)
    <3>1. \/ sent' = sent
          \/ \E a, b : sent' = sent \o <<a, b>>
          \/ \E a : sent' = sent \o <<a>>
      BY <2>7 DEF BlockStop
    <3>2. ASSUME NEW a, NEW b, sent' = sent \o <<a, b>> PROVE Adds(<<a, b>>) BY <2>3, <3>2, Short DEF Adds
    <3>3. ASSUME NEW a, sent' = sent \o <<a>> PROVE Adds(<<a>>) BY <2>3, <3>3, Short DEF Adds
    <3> QED BY <1>1, <2>3, <3>1, <3>2, <3>3
  <2> QED BY <2>1, <2>3, <2>4, <2>5, <2>6, <2>7
<1>4. CASE \/ \E n \in 1..Len(Body(reply, style)) : Chunk(n)
           \/ EndOfBody \/ Drained
  <2>1. UNCHANGED <<at, read, sent>> /\ pump' # "closed" BY <1>4 DEF Chunk, EndOfBody, Drained, readervars
  <2> QED BY <1>1, <2>1
<1>5. CASE ByteError
  <2>1. UNCHANGED <<at, read>> /\ sent' = Append(sent, Stop(Error)) /\ IsStop(Stop(Error))
    BY <1>5 DEF ByteError, readervars, IsStop, Stop
  <2> QED BY <1>2, <2>1
<1>6. CASE Finishes
  <2> DEFINE totals == IF usage = NoUsage THEN <<>> ELSE <<Usage(usage)>>
             stop == Stop(IF stop_reason = NoReason THEN Error ELSE stop_reason)
  <2>1. UNCHANGED <<at, read>> /\ sent' = (sent \o totals) \o <<stop>> BY <1>6 DEF Finishes, readervars
  <2>2. IsSeq(totals) BY Short
  <2>3. IsStop(stop) BY DEF IsStop, Stop
  <2> HIDE DEF totals, stop
  <2>4. IsSeq(<<stop>>) /\ Len(<<stop>>) = 1 /\ <<stop>>[1] = stop BY Short
  <2>5. IsSeq(totals \o <<stop>>) /\ \E j \in 1..Len(totals \o <<stop>>) : IsStop((totals \o <<stop>>)[j])
    BY <2>2, <2>3, <2>4, Joined
  <2>6. sent' = sent \o (totals \o <<stop>>)
    <3>1. PICK S : sent \in Seq(S) BY <1>0 DEF IsSeq
    <3>2. PICK T : totals \in Seq(T) BY <2>2 DEF IsSeq
    <3>3. PICK U : <<stop>> \in Seq(U) BY <2>4 DEF IsSeq
    <3>4. /\ sent \in Seq(S \cup T \cup U) /\ totals \in Seq(S \cup T \cup U)
          /\ <<stop>> \in Seq(S \cup T \cup U)
      BY <3>1, <3>2, <3>3, SeqMonotonic
    <3> QED BY <2>1, <3>4, ConcatAssociative
  <2> QED BY <2>1, <2>5, <2>6
<1> QED BY <1>3, <1>4, <1>5, <1>6 DEF Pump

LEMMA Waits == ChannelInv => NeverEndsSilently
<1> SUFFICES ASSUME ChannelInv, at = "reading", pump = "closed" PROVE read < Len(sent)
  BY DEF NeverEndsSilently
<1>1. PICK S : sent \in Seq(S) BY DEF ChannelInv, IsSeq
<1>2. Len(sent) \in Nat BY <1>1, LenProperties
<1> QED BY <1>2 DEF ChannelInv

\* A channel that has just been made, with a reader that has left or its pump
\* still to run.
LEMMA NewChannel ==
  ASSUME sent' = <<>>, read' = 0, at' # "reading" \/ pump' # "closed" PROVE ChannelInv'
<1>1. IsSeq(<<>>) /\ Len(<<>>) = 0 BY Short
<1> QED BY <1>1 DEF ChannelInv

LEMMA PumpKeeps == ASSUME ChannelInv, Pump PROVE ChannelInv'
<1>1. UNCHANGED <<at, read>> BY PumpAdds
<1>2. PICK u : IsSeq(u) /\ sent' = sent \o u /\ (pump' = "closed" => \E j \in 1..Len(u) : IsStop(u[j]))
  BY PumpAdds
<1>3. /\ IsSeq(sent') /\ Len(sent) \in Nat /\ Len(u) \in Nat /\ Len(sent') = Len(sent) + Len(u)
      /\ \A i \in 1..Len(sent) : sent'[i] = sent[i]
      /\ \A j \in 1..Len(u) : sent'[Len(sent) + j] = u[j]
  BY <1>2, Joined DEF ChannelInv
<1>4. read' \in Nat /\ read' <= Len(sent') BY <1>1, <1>3 DEF ChannelInv
<1>5. at' = "reading" => \A i \in 1..read' : ~IsStop(sent'[i])
  BY <1>1, <1>3 DEF ChannelInv
<1>6. ASSUME pump' = "closed" PROVE \E i \in 1..Len(sent') : IsStop(sent'[i])
  <2>1. PICK j \in 1..Len(u) : IsStop(u[j]) BY <1>2, <1>6
  <2>2. Len(sent) + j \in 1..Len(sent') /\ sent'[Len(sent) + j] = u[j] BY <1>3
  <2> QED BY <2>1, <2>2
<1> QED BY <1>3, <1>4, <1>5, <1>6 DEF ChannelInv

LEMMA ReadsKeeps == ASSUME ChannelInv, Reads PROVE ChannelInv'
<1>1. read < Len(sent) /\ at = "reading" BY Waits DEF Reads, NeverEndsSilently
<1> DEFINE e == sent[read + 1]
<1>2. IF e.type = "Stop" THEN StopsOn(e.reason) ELSE UNCHANGED <<at, attempt, waited, result>>
  BY <1>1 DEF Reads
<1>3. CASE at' = "backoff"
  <2>1. sent' = <<>> /\ read' = 0 BY <1>3 DEF Reads, Connects
  <2> QED BY <1>3, <2>1, NewChannel
<1>4. CASE at' # "backoff"
  <2>1. read' = Min({read + 1, Len(sent)}) /\ UNCHANGED <<pump, sent>> BY <1>4 DEF Reads
  <2>2. PICK S : sent \in Seq(S) BY DEF ChannelInv, IsSeq
  <2>3. Len(sent) \in Nat /\ read \in Nat BY <2>2, LenProperties DEF ChannelInv
  <2>4. read + 1 \in Nat /\ read + 1 <= Len(sent) BY <1>1, <2>3
  <2>5. read' = read + 1 BY <2>1, <2>3, <2>4, MinOfTwo
  <2>6. CASE e.type = "Stop"
    <3>1. at' # "reading" BY <1>2, <2>6 DEF StopsOn, Transient, Ends
    <3> QED BY <2>1, <2>4, <2>5, <3>1 DEF ChannelInv
  <2>7. CASE e.type # "Stop"
    <3>1. ~IsStop(sent[read + 1]) BY <2>7 DEF IsStop
    <3>2. \A i \in 1..read' : ~IsStop(sent'[i]) BY <1>1, <2>1, <2>3, <2>5, <3>1 DEF ChannelInv
    <3> QED BY <1>1, <2>1, <2>4, <2>5, <3>2 DEF ChannelInv
  <2> QED BY <2>6, <2>7
<1> QED BY <1>3, <1>4

LEMMA ChannelStep == ChannelInv /\ [Next]_vars => ChannelInv'
<1> SUFFICES ASSUME ChannelInv, [Next]_vars PROVE ChannelInv' OBVIOUS
<1>1. ASSUME NEW r, NEW s, Opens(r, s) PROVE ChannelInv'
  <2>1. sent' = <<>> /\ read' = 0 /\ pump' = "read" BY <1>1 DEF Opens, Connects
  <2> QED BY <2>1, NewChannel
<1>2. ASSUME NEW retryable, Refused(retryable) PROVE ChannelInv'
  <2>1. UNCHANGED <<sent, read>> /\ at' # "reading" BY <1>2 DEF Refused, Transient, Ends
  <2> QED BY <2>1 DEF ChannelInv
<1>3. CASE BackoffOver
  <2>1. UNCHANGED <<sent, read>> /\ at' # "reading" BY <1>3 DEF BackoffOver
  <2> QED BY <2>1 DEF ChannelInv
<1>4. CASE UNCHANGED vars BY <1>4 DEF vars, readervars, ChannelInv
<1> QED BY <1>1, <1>2, <1>3, <1>4, PumpKeeps, ReadsKeeps DEF Next

LEMMA ChannelInit == Init => ChannelInv
<1>1. IsSeq(<<>>) /\ Len(<<>>) = 0 BY Short
<1> QED BY <1>1 DEF Init, NoConnection, ChannelInv

\* Each of pump_sse's ways out leaves a Stop, and each reader leaves at its
\* first: none takes a closed channel for the good end of a reply.
THEOREM StreamNeverEndsSilently == Spec => []NeverEndsSilently
<1> QED BY ChannelInit, ChannelStep, Waits, PTL DEF Spec

\* A set of numbers has a least one.
LEMMA NatMin ==
  ASSUME NEW T \in SUBSET Nat, T # {}
  PROVE  \E x \in T : \A y \in T : x <= y
<1>1. PICK x \in T : \A y \in T : ~(<<y, x>> \in OpToRel(<, Nat))
  BY WFMin, NatLessThanWellFounded
<1>2. ASSUME NEW y \in T PROVE x <= y
  <2>1. ~(y < x)
    BY <1>1 DEF OpToRel
  <2> QED BY <2>1
<1> QED BY <1>2

\* What holds of 0, and of n + 1 if of n, holds of every number.
LEMMA SetInduction ==
  ASSUME NEW S, 0 \in S, \A n \in Nat : n \in S => n + 1 \in S
  PROVE  Nat \subseteq S
<1> SUFFICES ASSUME Nat \ S # {} PROVE FALSE
  OBVIOUS
<1>1. PICK x \in Nat \ S : \A y \in Nat \ S : x <= y
  BY NatMin
<1>2. x - 1 \in Nat /\ x - 1 \notin Nat \ S
  BY <1>1
<1> QED BY <1>1, <1>2

---------------------------------------------------------------------------
(* InOrder                                                                 *)

\* g is the function in the definition of InOrder.
Counts(g, f, n) ==
  g = [k \in 0..n |->
         IF k = 0 THEN <<>> ELSE IF k \in DOMAIN f THEN Append(g[k - 1], f[k]) ELSE g[k - 1]]

LEMMA CountsAt ==
  ASSUME NEW f, NEW n \in Nat, NEW g, Counts(g, f, n)
  PROVE  /\ g[0] = <<>>
         /\ \A k \in 0..(n - 1) : g[k + 1] = IF k + 1 \in DOMAIN f THEN Append(g[k], f[k + 1]) ELSE g[k]
<1>1. \A k \in 0..n :
        g[k] = IF k = 0 THEN <<>> ELSE IF k \in DOMAIN f THEN Append(g[k - 1], f[k]) ELSE g[k - 1]
  BY DEF Counts
<1>2. g[0] = <<>>
  <2>1. 0 \in 0..n
    OBVIOUS
  <2> QED BY <1>1, <2>1
<1>3. ASSUME NEW k \in 0..(n - 1)
      PROVE  g[k + 1] = IF k + 1 \in DOMAIN f THEN Append(g[k], f[k + 1]) ELSE g[k]
  <2>1. k + 1 \in 0..n /\ k + 1 # 0 /\ (k + 1) - 1 = k
    OBVIOUS
  <2>2. g[k + 1] = IF k + 1 \in DOMAIN f THEN Append(g[(k + 1) - 1], f[k + 1]) ELSE g[(k + 1) - 1]
    BY <1>1, <2>1
  <2> QED BY <2>1, <2>2
<1> QED BY <1>2, <1>3

LEMMA CountsExists == ASSUME NEW f, NEW n \in Nat PROVE \E g : Counts(g, f, n)
<1>1. PICK S : S = {m \in Nat : \E g : Counts(g, f, m)}
  OBVIOUS
<1>2. 0 \in S
  <2>1. PICK g : g = [k \in 0..0 |-> <<>>]
    OBVIOUS
  <2>2. Counts(g, f, 0)
    BY <2>1 DEF Counts
  <2> QED BY <1>1, <2>2
<1>3. ASSUME NEW m \in Nat, m \in S PROVE m + 1 \in S
  <2>1. PICK g : Counts(g, f, m)
    BY <1>1, <1>3
  <2>2. PICK last : last = IF m + 1 \in DOMAIN f THEN Append(g[m], f[m + 1]) ELSE g[m]
    OBVIOUS
  <2>3. PICK h : h = [k \in 0..(m + 1) |-> IF k = m + 1 THEN last ELSE g[k]]
    OBVIOUS
  <2>4. h[m + 1] = last /\ \A k \in 0..m : h[k] = g[k]
    BY <2>3
  <2>5. ASSUME NEW k \in 0..(m + 1)
        PROVE  h[k] = IF k = 0 THEN <<>> ELSE IF k \in DOMAIN f THEN Append(h[k - 1], f[k]) ELSE h[k - 1]
    <3>1. CASE k = m + 1
      <4>1. k - 1 = m /\ k # 0 /\ h[k - 1] = g[m] /\ h[k] = last
        BY <2>4, <3>1
      <4> QED BY <2>2, <3>1, <4>1
    <3>2. CASE k = 0
      <4>1. g[0] = <<>>
        BY <2>1, CountsAt
      <4> QED BY <2>4, <3>2, <4>1
    <3>3. CASE k \in 1..m
      <4>1. k - 1 \in 0..(m - 1) /\ (k - 1) + 1 = k /\ k - 1 \in 0..m /\ k \in 0..m /\ k # 0
        BY <3>3
      <4>2. g[(k - 1) + 1] = IF (k - 1) + 1 \in DOMAIN f THEN Append(g[k - 1], f[(k - 1) + 1]) ELSE g[k - 1]
        BY <2>1, <4>1, CountsAt
      <4>3. g[k] = IF k \in DOMAIN f THEN Append(g[k - 1], f[k]) ELSE g[k - 1]
        BY <4>1, <4>2
      <4>4. h[k] = g[k] /\ h[k - 1] = g[k - 1]
        BY <2>4, <4>1
      <4> QED BY <4>1, <4>3, <4>4
    <3> QED BY <3>1, <3>2, <3>3
  <2>6. Counts(h, f, m + 1)
    BY <2>3, <2>5 DEF Counts
  <2> QED BY <1>1, <2>6
<1>4. Nat \subseteq S
  BY <1>2, <1>3, SetInduction
<1> QED BY <1>1, <1>4

LEMMA InOrderIs == ASSUME NEW f, NEW n \in Nat PROVE \E g : Counts(g, f, n) /\ InOrder(f, n) = g[n]
<1>1. PICK g : g = CHOOSE h : Counts(h, f, n)
  OBVIOUS
<1>2. Counts(g, f, n)
  BY <1>1, CountsExists
<1>3. InOrder(f, n) = g[n]
  BY <1>1 DEF InOrder, Counts
<1> QED BY <1>2, <1>3

\* Functions that agree up to n have the same values in order up to n.
LEMMA CountsAgree ==
  ASSUME NEW f, NEW e, NEW n \in Nat, NEW m \in Nat, NEW i \in Nat, i <= n, i <= m,
         NEW g, Counts(g, f, n), NEW h, Counts(h, e, m),
         \A k \in 1..i : (k \in DOMAIN f <=> k \in DOMAIN e) /\ (k \in DOMAIN f => f[k] = e[k])
  PROVE  g[i] = h[i]
<1>1. PICK S : S = {k \in Nat : k <= i => g[k] = h[k]}
  OBVIOUS
<1>2. 0 \in S
  <2>1. g[0] = <<>>
    BY CountsAt
  <2>2. h[0] = <<>>
    BY CountsAt
  <2> QED BY <1>1, <2>1, <2>2
<1>3. ASSUME NEW k \in Nat, k \in S PROVE k + 1 \in S
  <2> SUFFICES ASSUME k + 1 <= i PROVE g[k + 1] = h[k + 1]
    BY <1>1
  <2>1. k \in 0..(n - 1) /\ k \in 0..(m - 1) /\ k + 1 \in 1..i /\ g[k] = h[k]
    BY <1>1, <1>3
  <2>2. g[k + 1] = IF k + 1 \in DOMAIN f THEN Append(g[k], f[k + 1]) ELSE g[k]
    BY <2>1, CountsAt
  <2>3. h[k + 1] = IF k + 1 \in DOMAIN e THEN Append(h[k], e[k + 1]) ELSE h[k]
    BY <2>1, CountsAt
  <2> QED BY <2>1, <2>2, <2>3
<1>4. Nat \subseteq S
  BY <1>2, <1>3, SetInduction
<1> QED BY <1>1, <1>4

LEMMA InOrderAgree ==
  ASSUME NEW f, NEW e, NEW n \in Nat,
         \A k \in 1..n : (k \in DOMAIN f <=> k \in DOMAIN e) /\ (k \in DOMAIN f => f[k] = e[k])
  PROVE  InOrder(f, n) = InOrder(e, n)
<1>1. PICK g : Counts(g, f, n) /\ InOrder(f, n) = g[n]
  BY InOrderIs
<1>2. PICK h : Counts(h, e, n) /\ InOrder(e, n) = h[n]
  BY InOrderIs
<1>3. g[n] = h[n]
  BY <1>1, <1>2, CountsAgree
<1> QED BY <1>1, <1>2, <1>3

LEMMA InOrderZero == ASSUME NEW f PROVE InOrder(f, 0) = <<>>
<1>1. PICK g : Counts(g, f, 0) /\ InOrder(f, 0) = g[0]
  BY InOrderIs
<1> QED BY <1>1, CountsAt

LEMMA InOrderNext ==
  ASSUME NEW f, NEW n \in Nat
  PROVE  InOrder(f, n + 1) = IF n + 1 \in DOMAIN f THEN Append(InOrder(f, n), f[n + 1]) ELSE InOrder(f, n)
<1>1. PICK g : Counts(g, f, n) /\ InOrder(f, n) = g[n]
  BY InOrderIs
<1>2. PICK h : Counts(h, f, n + 1) /\ InOrder(f, n + 1) = h[n + 1]
  BY InOrderIs
<1>3. g[n] = h[n]
  BY <1>1, <1>2, CountsAgree
<1>4. n \in 0..((n + 1) - 1) /\ n + 1 \in Nat
  OBVIOUS
<1>5. h[n + 1] = IF n + 1 \in DOMAIN f THEN Append(h[n], f[n + 1]) ELSE h[n]
  BY <1>2, <1>4, CountsAt
<1> QED BY <1>1, <1>2, <1>3, <1>5

\* Positions without a value add nothing.
LEMMA InOrderSkips ==
  ASSUME NEW f, NEW m \in Nat, NEW n \in Nat, m <= n, \A k \in (m + 1)..n : k \notin DOMAIN f
  PROVE  InOrder(f, n) = InOrder(f, m)
<1>1. PICK S : S = {k \in Nat : m <= k /\ k <= n => InOrder(f, k) = InOrder(f, m)}
  OBVIOUS
<1>2. 0 \in S
  BY <1>1
<1>3. ASSUME NEW k \in Nat, k \in S PROVE k + 1 \in S
  <2>1. CASE k + 1 <= m \/ k + 1 > n
    BY <1>1, <2>1
  <2>2. CASE m <= k /\ k + 1 <= n
    <3>1. k + 1 \in (m + 1)..n /\ InOrder(f, k) = InOrder(f, m)
      BY <1>1, <1>3, <2>2
    <3>2. InOrder(f, k + 1) = InOrder(f, k)
      BY <3>1, InOrderNext
    <3> QED BY <1>1, <3>1, <3>2
  <2> QED BY <2>1, <2>2
<1>4. Nat \subseteq S
  BY <1>2, <1>3, SetInduction
<1> QED BY <1>1, <1>4

LEMMA InOrderSeq ==
  ASSUME NEW f, NEW n \in Nat, NEW V, \A k \in DOMAIN f : f[k] \in V
  PROVE  InOrder(f, n) \in Seq(V)
<1>1. PICK S : S = {k \in Nat : InOrder(f, k) \in Seq(V)}
  OBVIOUS
<1>2. 0 \in S
  <2>1. InOrder(f, 0) = <<>> /\ <<>> \in Seq(V)
    BY InOrderZero, EmptySeq
  <2> QED BY <1>1, <2>1
<1>3. ASSUME NEW k \in Nat, k \in S PROVE k + 1 \in S
  <2>1. PICK t : t = InOrder(f, k)
    OBVIOUS
  <2>2. t \in Seq(V)
    BY <1>1, <1>3, <2>1
  <2>3. InOrder(f, k + 1) = IF k + 1 \in DOMAIN f THEN Append(t, f[k + 1]) ELSE t
    BY <2>1, InOrderNext
  <2>4. InOrder(f, k + 1) \in Seq(V)
    <3>1. CASE k + 1 \in DOMAIN f
      <4>1. f[k + 1] \in V
        BY <3>1
      <4>2. Append(t, f[k + 1]) \in Seq(V)
        BY <2>2, <4>1, AppendProperties
      <4> QED BY <2>3, <3>1, <4>2
    <3>2. CASE k + 1 \notin DOMAIN f
      BY <2>2, <2>3, <3>2
    <3> QED BY <3>1, <3>2
  <2> QED BY <1>1, <2>4
<1>4. Nat \subseteq S
  BY <1>2, <1>3, SetInduction
<1> QED BY <1>1, <1>4

LEMMA InOrderPrefix ==
  ASSUME NEW f, NEW m \in Nat, NEW n \in Nat, m <= n
  PROVE  IsPrefix(InOrder(f, m), InOrder(f, n))
<1>1. PICK V : V = {f[k] : k \in DOMAIN f}
  OBVIOUS
<1>2. \A k \in Nat : InOrder(f, k) \in Seq(V)
  BY <1>1, InOrderSeq
<1>3. PICK s : s = InOrder(f, m)
  OBVIOUS
<1>4. PICK S : S = {k \in Nat : m <= k => /\ Len(s) <= Len(InOrder(f, k))
                                           /\ \A i \in 1..Len(s) : InOrder(f, k)[i] = s[i]}
  OBVIOUS
<1>5. s \in Seq(V) /\ Len(s) \in Nat
  BY <1>2, <1>3, LenProperties
<1>6. 0 \in S
  BY <1>3, <1>4, <1>5
<1>7. ASSUME NEW k \in Nat, k \in S PROVE k + 1 \in S
  <2>1. CASE k + 1 < m
    BY <1>4, <2>1
  <2>2. CASE k + 1 = m
    BY <1>3, <1>4, <1>5, <2>2
  <2>3. CASE m <= k
    <3>1. PICK t : t = InOrder(f, k)
      OBVIOUS
    <3>2. t \in Seq(V) /\ Len(t) \in Nat /\ Len(s) <= Len(t) /\ \A i \in 1..Len(s) : t[i] = s[i]
      BY <1>2, <1>4, <1>7, <2>3, <3>1, LenProperties
    <3>3. CASE k + 1 \notin DOMAIN f
      BY <1>4, <3>1, <3>2, <3>3, InOrderNext
    <3>4. CASE k + 1 \in DOMAIN f
      <4>1. InOrder(f, k + 1) = Append(t, f[k + 1]) /\ f[k + 1] \in V
        BY <1>1, <3>1, <3>4, InOrderNext
      <4>2. Len(Append(t, f[k + 1])) = Len(t) + 1 /\ \A i \in 1..Len(t) : Append(t, f[k + 1])[i] = t[i]
        BY <3>2, <4>1, AppendProperties
      <4> QED BY <1>4, <1>5, <3>2, <4>1, <4>2
    <3> QED BY <3>3, <3>4
  <2> QED BY <2>1, <2>2, <2>3
<1>8. Nat \subseteq S
  BY <1>6, <1>7, SetInduction
<1>9. PICK t : t = InOrder(f, n)
  OBVIOUS
<1>10. t \in Seq(V) /\ Len(t) \in Nat /\ Len(s) <= Len(t) /\ \A i \in 1..Len(s) : t[i] = s[i]
  BY <1>2, <1>4, <1>8, <1>9, LenProperties
<1>11. SubSeq(s, 1, Len(s)) = SubSeq(t, 1, Len(s))
  BY <1>5, <1>10
<1> QED BY <1>3, <1>9, <1>10, <1>11 DEF IsPrefix

---------------------------------------------------------------------------
(* The delay before an attempt                                             *)

Doubles(f, n) == f = [k \in 0..n |-> IF k = 0 THEN BaseDelay ELSE 2 * f[k - 1]]

LEMMA DoublesExists == ASSUME NEW n \in Nat PROVE \E f \in [0..n -> Nat] : Doubles(f, n)
<1>0. BaseDelay \in Nat
  BY StreamAssumption
<1>1. PICK S : S = {m \in Nat : \E f \in [0..m -> Nat] : Doubles(f, m)}
  OBVIOUS
<1>2. 0 \in S
  <2>1. PICK f : f = [k \in 0..0 |-> BaseDelay]
    OBVIOUS
  <2>2. f \in [0..0 -> Nat] /\ Doubles(f, 0)
    BY <1>0, <2>1 DEF Doubles
  <2> QED BY <1>1, <2>2
<1>3. ASSUME NEW m \in Nat, m \in S PROVE m + 1 \in S
  <2>1. PICK f \in [0..m -> Nat] : Doubles(f, m)
    BY <1>1, <1>3
  <2>2. PICK h : h = [k \in 0..(m + 1) |-> IF k = m + 1 THEN 2 * f[m] ELSE f[k]]
    OBVIOUS
  <2>3. \A k \in 0..m : f[k] = IF k = 0 THEN BaseDelay ELSE 2 * f[k - 1]
    BY <2>1 DEF Doubles
  <2>4. h[m + 1] = 2 * f[m] /\ \A k \in 0..m : h[k] = f[k]
    BY <2>2
  <2>5. ASSUME NEW k \in 0..(m + 1) PROVE h[k] = IF k = 0 THEN BaseDelay ELSE 2 * h[k - 1]
    <3>1. CASE k = m + 1
      BY <2>4, <3>1
    <3>2. CASE k \in 0..m
      BY <2>3, <2>4, <3>2
    <3> QED BY <3>1, <3>2
  <2>6. h \in [0..(m + 1) -> Nat]
    BY <2>1, <2>2
  <2>7. Doubles(h, m + 1)
    BY <2>2, <2>5 DEF Doubles
  <2> QED BY <1>1, <2>6, <2>7
<1>4. Nat \subseteq S
  BY <1>2, <1>3, SetInduction
<1> QED BY <1>1, <1>4

LEMMA DoubledNat == Doubled \in [0..16 -> Nat]
<1>1. PICK f \in [0..16 -> Nat] : Doubles(f, 16)
  BY DoublesExists
<1>2. Doubled = CHOOSE h : Doubles(h, 16)
  BY DEF Doubled, Doubles
<1>3. Doubles(Doubled, 16)
  BY <1>1, <1>2
<1>4. f \in [0..16 -> Nat] /\ \A k \in 0..16 : f[k] = IF k = 0 THEN BaseDelay ELSE 2 * f[k - 1]
  BY <1>1 DEF Doubles
<1>5. /\ DOMAIN Doubled = 0..16 /\ Doubled = [k \in 0..16 |-> Doubled[k]]
      /\ \A k \in 0..16 : Doubled[k] = IF k = 0 THEN BaseDelay ELSE 2 * Doubled[k - 1]
  BY <1>3 DEF Doubles
<1> HIDE DEF Doubled
<1>6. PICK S : S = {k \in Nat : k <= 16 => Doubled[k] \in Nat}
  OBVIOUS
<1>7. 0 \in S
  BY <1>5, <1>6, StreamAssumption
<1>8. ASSUME NEW k \in Nat, k \in S PROVE k + 1 \in S
  <2> SUFFICES ASSUME k + 1 <= 16 PROVE Doubled[k + 1] \in Nat
    BY <1>6
  <2>1. k \in 0..16 /\ k + 1 \in 0..16 /\ (k + 1) - 1 = k /\ k + 1 # 0 /\ Doubled[k] \in Nat
    BY <1>6, <1>8
  <2>2. Doubled[k + 1] = 2 * Doubled[(k + 1) - 1]
    BY <1>5, <2>1
  <2> QED BY <2>1, <2>2
<1>9. Nat \subseteq S
  BY <1>7, <1>8, SetInduction
<1> QED BY <1>5, <1>6, <1>9

LEMMA MinOf ==
  ASSUME NEW a \in Int, NEW b \in Int
  PROVE  Min({a, b}) \in {a, b} /\ Min({a, b}) <= a /\ Min({a, b}) <= b
<1>1. PICK m \in {a, b} : m <= a /\ m <= b
  OBVIOUS
<1>2. \A x \in {a, b} : (\A y \in {a, b} : x =< y) => x <= a /\ x <= b
  OBVIOUS
<1>3. \E x \in {a, b} : \A y \in {a, b} : x =< y
  BY <1>1
<1> QED BY <1>2, <1>3 DEF Min

LEMMA DelayBound == ASSUME NEW n \in Nat PROVE DelayFor(n) \in 0..MaxDelay
<1>0. MaxDelay \in Nat
  BY StreamAssumption
<1>1. CASE n = 0
  BY <1>0, <1>1 DEF DelayFor
<1>2. CASE n # 0
  <2>1. PICK k : k = Min({n - 1, 16})
    OBVIOUS
  <2>2. n - 1 \in Nat /\ n - 1 \in Int /\ 16 \in Int
    BY <1>2
  <2>3. k \in 0..16
    <3>1. k \in {n - 1, 16} /\ k <= 16
      BY <2>1, <2>2, MinOf
    <3> QED BY <2>2, <3>1
  <2>4. PICK d : d = Doubled[k]
    OBVIOUS
  <2>5. d \in Nat
    BY <2>3, <2>4, DoubledNat
  <2>6. DelayFor(n) = Min({d, MaxDelay})
    BY <1>2, <2>1, <2>4 DEF DelayFor
  <2> QED BY <1>0, <2>5, <2>6, MinOf
<1> QED BY <1>1, <1>2

---------------------------------------------------------------------------
(* Frames                                                                  *)

\* b is the body of r from event c + 1 on, as far as it has arrived.
Holds(b, r, s, c) ==
  /\ Len(r) \in Nat /\ s \in {"LF", "CRLF"} /\ c \in 0..Len(r)
  /\ IsSeq(b) /\ Len(b) \in Nat /\ Width(s) * c + Len(b) <= Width(s) * Len(r)
  /\ \A i \in 1..Len(b) : b[i] = Body(r, s)[Width(s) * c + i]

LEMMA FrameAt ==
  ASSUME NEW r, Len(r) \in Nat, NEW s \in {"LF", "CRLF"}, NEW c \in Nat, c < Len(r), NEW j \in 1..Width(s)
  PROVE  Body(r, s)[Width(s) * c + j] = Frame(r[c + 1], s)[j]
<1>1. CASE s = "LF"
  <2>1. Width(s) = 5 /\ j \in 1..5
    BY <1>1 DEF Width
  <2>2. 5 * c + j \in 1..(5 * Len(r)) /\ ((5 * c + j - 1) \div 5) + 1 = c + 1 /\ ((5 * c + j - 1) % 5) + 1 = j
    BY <2>1
  <2> QED BY <2>1, <2>2 DEF Body
<1>2. CASE s = "CRLF"
  <2>1. Width(s) = 8 /\ j \in 1..8
    BY <1>2 DEF Width
  <2>2. 8 * c + j \in 1..(8 * Len(r)) /\ ((8 * c + j - 1) \div 8) + 1 = c + 1 /\ ((8 * c + j - 1) % 8) + 1 = j
    BY <2>1
  <2> QED BY <2>1, <2>2 DEF Body
<1> QED BY <1>1, <1>2

LEMMA BodyLen ==
  ASSUME NEW r, Len(r) \in Nat, NEW s \in {"LF", "CRLF"}
  PROVE  Len(Body(r, s)) = Width(s) * Len(r) /\ DOMAIN Body(r, s) = 1..(Width(s) * Len(r))
<1>1. PICK n : n = Width(s) * Len(r)
  OBVIOUS
<1>2. n \in Nat
  BY <1>1 DEF Width
<1>3. DOMAIN Body(r, s) = 1..n
  BY <1>1 DEF Body
<1>4. PICK b : b = Body(r, s)
  OBVIOUS
<1>5. b = [i \in 1..n |-> b[i]]
  BY <1>1, <1>4 DEF Body
<1>6. PICK V : V = {b[i] : i \in 1..n}
  OBVIOUS
<1>7. b \in [1..n -> V]
  BY <1>5, <1>6
<1>8. b \in Seq(V)
  BY <1>2, <1>7, SeqDef
<1>9. Len(b) = n
  BY <1>2, <1>3, <1>4, <1>8, LenProperties
<1> QED BY <1>1, <1>3, <1>4, <1>9

\* Between events that end in CR LF, no LF follows another.
LEMMA NoBareBlankLine ==
  ASSUME NEW r, Len(r) \in Nat, NEW p \in 1..(8 * Len(r) - 1), \A i \in 1..Len(r) : r[i].type \in EventTypes
  PROVE  ~(Body(r, "CRLF")[p] = LF /\ Body(r, "CRLF")[p + 1] = LF)
<1>1. PICK d : d = (p - 1) \div 8
  OBVIOUS
<1>2. PICK j : j = ((p - 1) % 8) + 1
  OBVIOUS
<1>3. d \in Nat /\ d < Len(r) /\ j \in 1..8 /\ p = 8 * d + j
  BY <1>1, <1>2
<1>4. Width("CRLF") = 8
  BY DEF Width
<1>a. ASSUME NEW c \in Nat, c < Len(r), NEW i \in 1..8
      PROVE  Body(r, "CRLF")[8 * c + i] = Frame(r[c + 1], "CRLF")[i]
  <2>1. i \in 1..Width("CRLF")
    BY <1>4
  <2>2. Body(r, "CRLF")[Width("CRLF") * c + i] = Frame(r[c + 1], "CRLF")[i]
    BY <1>a, <2>1, FrameAt
  <2> QED BY <1>4, <2>2
<1>5. Body(r, "CRLF")[p] = Frame(r[d + 1], "CRLF")[j]
  BY <1>3, <1>a
<1>6. Frame(r[d + 1], "CRLF") = <<Header, CR, LF, r[d + 1], CR, LF, CR, LF>> /\ d + 1 \in 1..Len(r)
  BY <1>3 DEF Frame
<1>7. r[d + 1] # LF /\ Header # LF /\ CR # LF
  BY <1>6 DEF LF, CR, Header, EventTypes, BlockEvents
<1>8. CASE j \in {1, 2, 4, 5, 7}
  BY <1>5, <1>6, <1>7, <1>8
<1>9. CASE j \in {3, 6}
  <2>1. j + 1 \in 1..8 /\ p + 1 = 8 * d + (j + 1)
    BY <1>3, <1>9
  <2>2. Body(r, "CRLF")[p + 1] = Frame(r[d + 1], "CRLF")[j + 1]
    BY <1>3, <1>a, <2>1
  <2> QED BY <1>6, <1>7, <1>9, <2>2
<1>10. CASE j = 8
  <2>1. d + 1 \in Nat /\ d + 1 < Len(r) /\ p + 1 = 8 * (d + 1) + 1 /\ 1 \in 1..8
    BY <1>3, <1>10
  <2>2. Body(r, "CRLF")[p + 1] = Frame(r[(d + 1) + 1], "CRLF")[1]
    BY <1>a, <2>1
  <2>3. Frame(r[(d + 1) + 1], "CRLF")[1] = Header
    BY DEF Frame
  <2> QED BY <1>7, <2>2, <2>3
<1> QED BY <1>3, <1>8, <1>9, <1>10

\* The first position of a set of positions.
LEMMA MinIs ==
  ASSUME NEW S \in SUBSET Nat, NEW m \in S, \A x \in S : m <= x
  PROVE  Min(S) = m
<1>1. \A x \in S : (\A y \in S : x =< y) <=> x = m
  OBVIOUS
<1>2. \E x \in S : \A y \in S : x =< y
  BY <1>1
<1>3. Min(S) = CHOOSE x \in S : \A y \in S : x =< y
  BY DEF Min
<1> QED BY <1>1, <1>2, <1>3

LEMMA TwoOccur ==
  ASSUME NEW b, Len(b) \in Nat
  PROVE  Occurrences(b, <<LF, LF>>) = {i \in 1..(Len(b) - 1) : b[i] = LF /\ b[i + 1] = LF}
<1>1. PICK x : x = LF
  OBVIOUS
<1>2. Len(<<x, x>>) = 2 /\ DOMAIN <<x, x>> = {1, 2} /\ <<x, x>>[1] = x /\ <<x, x>>[2] = x
  OBVIOUS
<1>3. ASSUME NEW i \in Int
      PROVE (\A j \in DOMAIN <<x, x>> : b[i + j - 1] = <<x, x>>[j]) <=> b[i] = x /\ b[i + 1] = x
  <2>1. i + 1 - 1 = i /\ i + 2 - 1 = i + 1
    OBVIOUS
  <2> QED BY <1>2, <2>1
<1>4. Len(b) - 2 + 1 = Len(b) - 1
  OBVIOUS
<1>5. Occurrences(b, <<x, x>>) = {i \in 1..(Len(b) - 1) : b[i] = x /\ b[i + 1] = x}
  BY <1>2, <1>3, <1>4 DEF Occurrences
<1> QED BY <1>1, <1>5

LEMMA FourOccur ==
  ASSUME NEW b, Len(b) \in Nat
  PROVE  Occurrences(b, <<CR, LF, CR, LF>>) =
           {i \in 1..(Len(b) - 3) : b[i] = CR /\ b[i + 1] = LF /\ b[i + 2] = CR /\ b[i + 3] = LF}
<1>1. PICK x : x = LF
  OBVIOUS
<1>2. PICK y : y = CR
  OBVIOUS
<1> DEFINE needle == <<y, x, y, x>>
<1>3. /\ Len(needle) = 4 /\ DOMAIN needle = {1, 2, 3, 4}
      /\ needle[1] = y /\ needle[2] = x /\ needle[3] = y /\ needle[4] = x
  OBVIOUS
<1> HIDE DEF needle
<1>4. ASSUME NEW i \in Int
      PROVE (\A j \in DOMAIN needle : b[i + j - 1] = needle[j])
              <=> b[i] = y /\ b[i + 1] = x /\ b[i + 2] = y /\ b[i + 3] = x
  <2>1. i + 1 - 1 = i /\ i + 2 - 1 = i + 1 /\ i + 3 - 1 = i + 2 /\ i + 4 - 1 = i + 3
    OBVIOUS
  <2> QED BY <1>3, <2>1
<1>5. Len(b) - 4 + 1 = Len(b) - 3
  OBVIOUS
<1>6. Occurrences(b, needle) =
        {i \in 1..(Len(b) - 3) : b[i] = y /\ b[i + 1] = x /\ b[i + 2] = y /\ b[i + 3] = x}
  BY <1>3, <1>4, <1>5 DEF Occurrences
<1> QED BY <1>1, <1>2, <1>6 DEF needle

\* The one data line of a block is its event.
LEMMA ParsedIs ==
  ASSUME NEW t, NEW p \in DOMAIN t, \A i \in DOMAIN t : IsData(t[i]) <=> i = p
  PROVE  Parsed(t) = t[p]
<1>1. PICK data : data = {i \in DOMAIN t : IsData(t[i])}
  OBVIOUS
<1>2. data = {p}
  BY <1>1
<1>3. (CHOOSE i \in data : TRUE) = p
  BY <1>2
<1> QED BY <1>1, <1>2, <1>3 DEF Parsed

\* The k elements after the first m.
LEMMA SubSeqAt ==
  ASSUME NEW S, NEW s, NEW m \in Nat, NEW k \in Nat, NEW n, n = m + k, \A i \in (m + 1)..n : s[i] \in S
  PROVE  /\ SubSeq(s, m + 1, n) \in Seq(S) /\ Len(SubSeq(s, m + 1, n)) = k
         /\ \A i \in 1..k : SubSeq(s, m + 1, n)[i] = s[m + i]
<1>1. m + 1 \in Int /\ n \in Int /\ n - (m + 1) + 1 = k /\ (m + 1 <= n <=> k > 0)
  OBVIOUS
<1>2. PICK t : t = SubSeq(s, m + 1, n)
  OBVIOUS
<1>3. /\ t \in Seq(S) /\ Len(t) = IF m + 1 <= n THEN n - (m + 1) + 1 ELSE 0
      /\ \A i \in 1..(n - (m + 1) + 1) : t[i] = s[(m + 1) + i - 1]
  BY <1>1, <1>2, SubSeqProperties
<1>4. Len(t) = k
  BY <1>1, <1>3
<1>5. ASSUME NEW i \in 1..k PROVE t[i] = s[m + i]
  <2>1. (m + 1) + i - 1 = m + i
    OBVIOUS
  <2> QED BY <1>1, <1>3, <2>1
<1> QED BY <1>2, <1>3, <1>4, <1>5

\* The first tokens of a buffer.
LEMMA FirstTokens ==
  ASSUME NEW b, IsSeq(b), NEW n \in Nat, n <= Len(b)
  PROVE  DOMAIN SubSeq(b, 1, n) = 1..n /\ \A i \in 1..n : SubSeq(b, 1, n)[i] = b[i]
<1>1. PICK S : b \in Seq(S)
  BY DEF IsSeq
<1> QED BY <1>1

LEMMA FirstFrame ==
  ASSUME NEW b, NEW r, NEW s, NEW c, Holds(b, r, s, c), Len(b) > 0
  PROVE  /\ c < Len(r) /\ c \in Nat /\ c + 1 \in 1..Len(r)
         /\ \A i \in 1..Len(b) : i <= Width(s) => b[i] = Frame(r[c + 1], s)[i]
<1>1. c < Len(r) /\ c \in Nat
  <2>1. CASE s = "LF"
    BY <2>1 DEF Holds, Width
  <2>2. CASE s = "CRLF"
    BY <2>2 DEF Holds, Width
  <2> QED BY <2>1, <2>2 DEF Holds
<1>2. ASSUME NEW i \in 1..Len(b), i <= Width(s) PROVE b[i] = Frame(r[c + 1], s)[i]
  <2>1. i \in 1..Width(s)
    BY <1>2 DEF Width
  <2> QED BY <1>1, <2>1, FrameAt DEF Holds
<1> QED BY <1>1, <1>2 DEF Holds

\* The first blank line ends the first event, if all of it has arrived.
LEMMA BoundaryIs ==
  ASSUME NEW b, NEW r, NEW s, NEW c, Holds(b, r, s, c), \A i \in 1..Len(r) : r[i].type \in EventTypes
  PROVE  IF Len(b) < Width(s) THEN Boundary(b).end = 0
         ELSE /\ c < Len(r) /\ Boundary(b).end = Width(s)
              /\ Parsed(SubSeq(b, 1, Boundary(b).payload)) = r[c + 1]
<1>0. Len(b) \in Nat /\ IsSeq(b) /\ Len(r) \in Nat /\ c \in Nat
  BY DEF Holds
<1> DEFINE lf == Occurrences(b, <<LF, LF>>)
           crlf == Occurrences(b, <<CR, LF, CR, LF>>)
<1>1. lf = {i \in 1..(Len(b) - 1) : b[i] = LF /\ b[i + 1] = LF}
  BY <1>0, TwoOccur
<1>2. crlf = {i \in 1..(Len(b) - 3) : b[i] = CR /\ b[i + 1] = LF /\ b[i + 2] = CR /\ b[i + 3] = LF}
  BY <1>0, FourOccur
<1>3. Boundary(b) = IF lf # {} THEN [payload |-> Min(lf) - 1, end |-> Min(lf) + 1]
                    ELSE IF crlf # {} THEN [payload |-> Min(crlf) - 1, end |-> Min(crlf) + 3]
                    ELSE [payload |-> 0, end |-> 0]
  BY DEF Boundary
<1> HIDE DEF lf, crlf
<1>4. PICK e : e = r[c + 1]
  OBVIOUS
<1>5. Len(b) > 0 => e # LF /\ e # CR /\ IsData(e) /\ c < Len(r)
  <2> SUFFICES ASSUME Len(b) > 0 PROVE e # LF /\ e # CR /\ IsData(e) /\ c < Len(r)
    OBVIOUS
  <2>1. e.type \in EventTypes /\ c < Len(r)
    BY <1>4, FirstFrame
  <2> QED BY <2>1 DEF LF, CR, IsData, EventTypes, BlockEvents
<1>6. Header # LF /\ Header # CR /\ CR # LF /\ ~IsData(Header) /\ ~IsData(CR) /\ ~IsData(LF)
  BY DEF Header, LF, CR, IsData
<1>7. CASE s = "LF"
  <2>1. Width(s) = 5 /\ Frame(e, s) = <<Header, LF, e, LF, LF>>
    BY <1>7 DEF Width, Frame
  <2>2. \A i \in 1..Len(b) : i <= 5 => b[i] = <<Header, LF, e, LF, LF>>[i]
    <3>1. Len(b) > 0 => \A i \in 1..Len(b) : i <= Width(s) => b[i] = Frame(e, s)[i]
      BY <1>4, FirstFrame
    <3> QED BY <1>0, <2>1, <3>1
  <2>3. CASE Len(b) < 5
    <3>1. lf = {}
      BY <1>0, <1>1, <1>5, <1>6, <2>2, <2>3, SMTT(30)
    <3>2. crlf = {}
      BY <1>0, <1>2, <1>5, <1>6, <2>2, <2>3, SMTT(30)
    <3> QED BY <1>3, <2>1, <2>3, <3>1, <3>2
  <2>4. CASE Len(b) >= 5
    <3>1. b[1] = Header /\ b[2] = LF /\ b[3] = e /\ b[4] = LF /\ b[5] = LF
      BY <1>0, <2>2, <2>4
    <3>2. lf \in SUBSET Nat /\ 4 \in lf
      BY <1>0, <1>1, <2>4, <3>1
    <3>3. ASSUME NEW i \in lf PROVE 4 <= i
      <4>1. i \in Nat /\ i >= 1 /\ b[i] = LF /\ b[i + 1] = LF
        BY <1>0, <1>1
      <4>2. e # LF
        BY <1>0, <1>5, <2>4
      <4>3. i # 1 /\ i # 2 /\ i # 3
        BY <1>6, <3>1, <4>1, <4>2
      <4> QED BY <4>1, <4>3
    <3>4. Min(lf) = 4
      BY <3>2, <3>3, MinIs
    <3>5. Boundary(b) = [payload |-> 3, end |-> 5]
      BY <1>3, <3>2, <3>4
    <3>6. PICK t : t = SubSeq(b, 1, 3)
      OBVIOUS
    <3>7. DOMAIN t = 1..3 /\ t[1] = Header /\ t[2] = LF /\ t[3] = e
      BY <1>0, <2>4, <3>1, <3>6, FirstTokens
    <3>8. Parsed(t) = e
      <4>1. 3 \in DOMAIN t /\ \A i \in DOMAIN t : IsData(t[i]) <=> i = 3
        BY <1>0, <1>5, <1>6, <2>4, <3>7
      <4> QED BY <3>7, <4>1, ParsedIs
    <3> QED BY <1>0, <1>4, <1>5, <2>1, <2>4, <3>5, <3>6, <3>8
  <2> QED BY <1>0, <2>3, <2>4
<1>8. CASE s = "CRLF"
  <2>1. Width(s) = 8 /\ Frame(e, s) = <<Header, CR, LF, e, CR, LF, CR, LF>>
    BY <1>8 DEF Width, Frame
  <2>2. \A i \in 1..Len(b) : i <= 8 => b[i] = <<Header, CR, LF, e, CR, LF, CR, LF>>[i]
    <3>1. Len(b) > 0 => \A i \in 1..Len(b) : i <= Width(s) => b[i] = Frame(e, s)[i]
      BY <1>4, FirstFrame
    <3> QED BY <1>0, <2>1, <3>1
  <2>3. lf = {}
    <3> SUFFICES ASSUME NEW i \in 1..(Len(b) - 1), b[i] = LF, b[i + 1] = LF PROVE FALSE
      BY <1>1
    <3>1. i \in 1..Len(b) /\ i + 1 \in 1..Len(b)
      BY <1>0
    <3>2. b[i] = Body(r, "CRLF")[8 * c + i] /\ b[i + 1] = Body(r, "CRLF")[8 * c + (i + 1)]
      BY <1>8, <2>1, <3>1 DEF Holds
    <3>3. 8 * c + i \in 1..(8 * Len(r) - 1) /\ 8 * c + (i + 1) = (8 * c + i) + 1
      BY <1>0, <2>1, SMTT(30) DEF Holds
    <3> QED BY <1>0, <3>2, <3>3, NoBareBlankLine
  <2>4. CASE Len(b) < 8
    <3>1. crlf = {}
      BY <1>0, <1>2, <1>5, <1>6, <2>2, <2>4, SMTT(30)
    <3> QED BY <1>3, <2>1, <2>3, <2>4, <3>1
  <2>5. CASE Len(b) >= 8
    <3>1. /\ b[1] = Header /\ b[2] = CR /\ b[3] = LF /\ b[4] = e /\ b[5] = CR /\ b[6] = LF /\ b[7] = CR
          /\ b[8] = LF
      BY <1>0, <2>2, <2>5
    <3>2. crlf \in SUBSET Nat /\ 5 \in crlf
      BY <1>0, <1>2, <2>5, <3>1
    <3>3. ASSUME NEW i \in crlf PROVE 5 <= i
      <4>1. i \in Nat /\ i >= 1 /\ b[i] = CR /\ b[i + 2] = CR
        BY <1>0, <1>2
      <4>2. e # CR
        BY <1>0, <1>5, <2>5
      <4>3. b[1] # CR /\ b[3] # CR /\ b[4] # CR
        BY <1>6, <3>1, <4>2
      <4>4. i # 1 /\ i # 2 /\ i # 3 /\ i # 4
        BY <4>1, <4>2, <4>3, <3>1
      <4> QED BY <4>1, <4>4
    <3>4. Min(crlf) = 5
      BY <3>2, <3>3, MinIs
    <3>5. Boundary(b) = [payload |-> 4, end |-> 8]
      BY <1>3, <2>3, <3>2, <3>4
    <3>6. PICK t : t = SubSeq(b, 1, 4)
      OBVIOUS
    <3>7. DOMAIN t = 1..4 /\ t[1] = Header /\ t[2] = CR /\ t[3] = LF /\ t[4] = e
      BY <1>0, <2>5, <3>1, <3>6, FirstTokens
    <3>8. Parsed(t) = e
      <4>1. 4 \in DOMAIN t /\ \A i \in DOMAIN t : IsData(t[i]) <=> i = 4
        BY <1>0, <1>5, <1>6, <2>5, <3>7
      <4> QED BY <3>7, <4>1, ParsedIs
    <3> QED BY <1>0, <1>4, <1>5, <2>1, <2>5, <3>5, <3>6, <3>8
  <2> QED BY <1>0, <2>4, <2>5
<1> QED BY <1>7, <1>8 DEF Holds

\* u is the n tokens of w after the first d.
IsPart(u, w, d, n) == IsSeq(u) /\ Len(u) = n /\ \A i \in 1..n : u[i] = w[d + i]

\* The next n tokens of a body.
LEMMA PartOfBody ==
  ASSUME NEW w, Len(w) \in Nat, DOMAIN w = 1..Len(w), NEW d \in Nat, NEW n \in Nat, d + n <= Len(w),
         NEW u, u = SubSeq(w, d + 1, d + n)
  PROVE  IsPart(u, w, d, n)
<1>1. PICK top : top = d + n
  OBVIOUS
<1>2. PICK W : W = {w[i] : i \in DOMAIN w}
  OBVIOUS
<1>3. \A i \in (d + 1)..top : w[i] \in W
  BY <1>1, <1>2
<1>4. u = SubSeq(w, d + 1, top)
  BY <1>1
<1>5. u \in Seq(W) /\ Len(u) = n /\ \A i \in 1..n : u[i] = w[d + i]
  BY <1>1, <1>3, <1>4, SubSeqAt
<1> QED BY <1>5 DEF IsSeq, IsPart

\* d tokens have arrived.
Arrived(d, b, s, c) == d = Width(s) * c + Len(b)

\* More of the body arrives.
LEMMA HoldsMore ==
  ASSUME NEW b, NEW r, NEW s, NEW c, NEW d \in Nat, NEW n \in Nat,
         Holds(b, r, s, c), Arrived(d, b, s, c), d + n <= Len(Body(r, s))
  PROVE  /\ Holds(b \o SubSeq(Body(r, s), d + 1, d + n), r, s, c)
         /\ Arrived(d + n, b \o SubSeq(Body(r, s), d + 1, d + n), s, c)
<1>1. PICK w : w = Body(r, s)
  OBVIOUS
<1>2. PICK top : top = Width(s) * Len(r)
  OBVIOUS
<1>3. PICK low : low = Width(s) * c
  OBVIOUS
<1>4. /\ Len(w) = top /\ top \in Nat /\ low \in Nat /\ DOMAIN w = 1..top /\ IsSeq(b) /\ Len(b) \in Nat
      /\ d = low + Len(b) /\ d + n <= top /\ \A i \in 1..Len(b) : b[i] = w[low + i]
  BY <1>1, <1>2, <1>3, BodyLen DEF Holds, Width, Arrived
<1>9. PICK u : u = SubSeq(Body(r, s), d + 1, d + n)
  OBVIOUS
<1>10. IsSeq(u) /\ Len(u) = n /\ \A i \in 1..n : u[i] = w[d + i]
  <2>1. Len(w) \in Nat /\ DOMAIN w = 1..Len(w) /\ d + n <= Len(w) /\ u = SubSeq(w, d + 1, d + n)
    BY <1>1, <1>4, <1>9
  <2>2. IsPart(u, w, d, n)
    BY <2>1, PartOfBody
  <2> QED BY <2>2 DEF IsPart
<1>11. IsSeq(u)
  BY <1>10
<1>12. PICK bu : bu = b \o u
  OBVIOUS
<1>13. /\ IsSeq(bu) /\ Len(bu) = Len(b) + n
       /\ \A i \in 1..Len(b) : bu[i] = b[i]
       /\ \A i \in 1..n : bu[Len(b) + i] = u[i]
  <2>1. /\ IsSeq(b \o u) /\ Len(b \o u) = Len(b) + Len(u)
        /\ \A i \in 1..Len(b) : (b \o u)[i] = b[i]
        /\ \A i \in 1..Len(u) : (b \o u)[Len(b) + i] = u[i]
    BY <1>4, <1>11, Joined
  <2> QED BY <1>10, <1>12, <2>1
<1>14. ASSUME NEW i \in 1..Len(bu) PROVE bu[i] = w[low + i]
  <2>1. CASE i <= Len(b)
    BY <1>4, <1>13, <2>1
  <2>2. CASE i > Len(b)
    <3>1. i - Len(b) \in 1..n /\ Len(b) + (i - Len(b)) = i /\ d + (i - Len(b)) = low + i
      BY <1>4, <1>13, <2>2
    <3> QED BY <1>10, <1>13, <3>1
  <2> QED BY <1>4, <1>13, <2>1, <2>2
<1>15. low + Len(bu) <= top /\ Len(bu) \in Nat /\ d + n = low + Len(bu)
  BY <1>4, <1>13
<1> QED BY <1>1, <1>2, <1>3, <1>9, <1>12, <1>13, <1>14, <1>15 DEF Holds, Arrived

\* An event is taken out.
LEMMA HoldsLess ==
  ASSUME NEW b, NEW r, NEW s, NEW c, Holds(b, r, s, c), Len(b) >= Width(s)
  PROVE  /\ Holds(SubSeq(b, Width(s) + 1, Len(b)), r, s, c + 1)
         /\ \A d : Arrived(d, b, s, c) => Arrived(d, SubSeq(b, Width(s) + 1, Len(b)), s, c + 1)
<1>1. PICK w : w = Width(s)
  OBVIOUS
<1>2. w \in {5, 8} /\ Len(b) \in Nat /\ Len(b) >= w /\ c \in Nat /\ IsSeq(b) /\ Len(r) \in Nat
  BY <1>1 DEF Holds, Width
<1>3. PICK low \in Nat : low = w * c /\ w * (c + 1) = low + w
  <2>1. w * (c + 1) = w * c + w /\ w * c \in Nat
    BY <1>2
  <2> QED BY <2>1
<1>4. PICK k \in Nat : Len(b) = w + k
  <2>1. Len(b) - w \in Nat /\ Len(b) = w + (Len(b) - w)
    BY <1>2
  <2> QED BY <2>1
<1>5. PICK t : t = SubSeq(b, w + 1, Len(b))
  OBVIOUS
<1>6. IsSeq(t) /\ Len(t) = k /\ \A i \in 1..k : t[i] = b[w + i]
  <2>1. w \in Nat /\ DOMAIN b = 1..Len(b)
    BY <1>2, LenProperties DEF IsSeq
  <2>2. w + k <= Len(b) /\ t = SubSeq(b, w + 1, w + k)
    BY <1>2, <1>4, <1>5
  <2>3. IsPart(t, b, w, k)
    BY <1>2, <2>1, <2>2, PartOfBody
  <2> QED BY <2>3 DEF IsPart
<1>7. ASSUME NEW i \in 1..Len(t) PROVE t[i] = Body(r, s)[w * (c + 1) + i]
  <2>1. i \in 1..k
    BY <1>6
  <2>2. w + i \in 1..Len(b) /\ low + (w + i) = (low + w) + i
    BY <1>2, <1>4, <2>1
  <2>3. t[i] = b[w + i]
    BY <1>6, <2>1
  <2>4. b[w + i] = Body(r, s)[low + (w + i)]
    BY <1>1, <1>3, <2>2 DEF Holds
  <2> QED BY <1>3, <2>2, <2>3, <2>4
<1>8. c < Len(r)
  <2>1. Len(b) > 0
    BY <1>2
  <2> QED BY <2>1, FirstFrame
<1>9. w * (c + 1) + Len(t) = w * c + Len(b) /\ Len(t) \in Nat /\ c + 1 \in 0..Len(r)
  BY <1>2, <1>3, <1>4, <1>6, <1>8
<1> QED BY <1>1, <1>5, <1>6, <1>7, <1>9 DEF Holds, Arrived

---------------------------------------------------------------------------
(* The blocks of a reply                                                   *)

StartTypes == {"content_block_start"}
StopTypes == {"content_block_stop"}
InBlock == {"text_delta", "input_json_delta", "content_block_stop"}

LEMMA ReplyIs ==
  ASSUME NEW r, IsReply(r)
  PROVE  /\ Len(r) \in Nat /\ Len(r) > 0 /\ DOMAIN r = 1..Len(r) /\ r # <<>>
         /\ \A i \in 1..Len(r) : r[i].type \in EventTypes
<1>1. r \in Seq({r[i] : i \in DOMAIN r}) /\ r # <<>> /\ At(r, EventTypes) = DOMAIN r
  BY DEF IsReply
<1>2. PICK S : r \in Seq(S)
  BY <1>1
<1>3. Len(r) \in Nat /\ DOMAIN r = 1..Len(r)
  BY <1>2, LenProperties
<1>4. Len(r) > 0
  BY <1>1, <1>2, <1>3, EmptySeq
<1> QED BY <1>1, <1>3, <1>4 DEF At

LEMMA BlockOf ==
  ASSUME NEW r, IsReply(r), NEW i \in At(r, InBlock)
  PROVE  \E j \in At(r, StartTypes) :
           /\ j < i /\ r[j].index = r[i].index
           /\ \A k \in At(r, StopTypes) : r[k].index = r[i].index => k >= i
BY DEF IsReply, StartTypes, StopTypes, InBlock

LEMMA OneStart ==
  ASSUME NEW r, IsReply(r), NEW i \in At(r, StartTypes), NEW j \in At(r, StartTypes), r[i].index = r[j].index
  PROVE  i = j
BY DEF IsReply, StartTypes

LEMMA StartIs ==
  ASSUME NEW r, IsReply(r), NEW j \in At(r, StartTypes), NEW x, x = r[j].index
  PROVE  StartOf(r, x) = r[j]
<1>1. PICK k : k = CHOOSE i \in At(r, StartTypes) : r[i].index = x
  OBVIOUS
<1>2. k \in At(r, StartTypes) /\ r[k].index = x
  BY <1>1
<1>3. k = j
  BY <1>2, OneStart
<1> QED BY <1>1, <1>3 DEF StartOf, StartTypes

\* The tool_use blocks that are open after c events.
IsOpen(r, c, j) ==
  /\ j \in At(r, StartTypes) /\ j <= c /\ r[j].block = "tool_use"
  /\ \A k \in At(r, StopTypes) : r[k].index = r[j].index => k > c
Live(r, c) == {r[j].index : j \in {i \in At(r, StartTypes) : IsOpen(r, c, i)}}

LEMMA LiveIs ==
  ASSUME NEW r, NEW c, NEW x
  PROVE  x \in Live(r, c) <=> \E j : IsOpen(r, c, j) /\ r[j].index = x
BY DEF Live, IsOpen

LEMMA LiveNext ==
  ASSUME NEW r, IsReply(r), NEW c \in Nat, c < Len(r), NEW e, e = r[c + 1]
  PROVE  /\ e.type = "content_block_start" /\ e.block = "tool_use" => Live(r, c + 1) = Live(r, c) \cup {e.index}
         /\ e.type = "content_block_start" /\ e.block # "tool_use" => Live(r, c + 1) = Live(r, c)
         /\ e.type = "content_block_stop" => Live(r, c + 1) = Live(r, c) \ {e.index}
         /\ e.type \notin {"content_block_start", "content_block_stop"} => Live(r, c + 1) = Live(r, c)
<1>0. /\ Len(r) \in Nat /\ DOMAIN r = 1..Len(r) /\ c + 1 \in DOMAIN r
      /\ \A T : At(r, T) \subseteq 1..Len(r)
      /\ \A T : c + 1 \in At(r, T) <=> e.type \in T
  BY ReplyIs DEF At
<1>1. ASSUME e.type # "content_block_stop", NEW j, j # c + 1 PROVE IsOpen(r, c, j) <=> IsOpen(r, c + 1, j)
  <2>1. c + 1 \notin At(r, StopTypes)
    BY <1>0, <1>1 DEF StopTypes
  <2>2. \A k \in At(r, StopTypes) : k > c <=> k > c + 1
    BY <1>0, <2>1
  <2>3. j \in At(r, StartTypes) => (j <= c <=> j <= c + 1)
    BY <1>0, <1>1
  <2> QED BY <2>2, <2>3 DEF IsOpen
<1>2. ~IsOpen(r, c, c + 1)
  BY <1>0 DEF IsOpen
<1>3. ASSUME e.type # "content_block_start" PROVE ~IsOpen(r, c + 1, c + 1)
  BY <1>0, <1>3 DEF IsOpen, StartTypes
<1>4. CASE e.type \notin {"content_block_start", "content_block_stop"}
  <2>1. \A j : IsOpen(r, c, j) <=> IsOpen(r, c + 1, j)
    BY <1>1, <1>2, <1>3, <1>4
  <2>2. \A x : x \in Live(r, c) <=> x \in Live(r, c + 1)
    BY <2>1, LiveIs
  <2> QED BY <1>4, <2>2
<1>5. CASE e.type = "content_block_start" /\ e.block # "tool_use"
  <2>1. ~IsOpen(r, c + 1, c + 1)
    BY <1>5 DEF IsOpen
  <2>2. \A j : IsOpen(r, c, j) <=> IsOpen(r, c + 1, j)
    BY <1>1, <1>2, <1>5, <2>1
  <2>3. \A x : x \in Live(r, c) <=> x \in Live(r, c + 1)
    BY <2>2, LiveIs
  <2> QED BY <1>5, <2>3
<1>6. CASE e.type = "content_block_start" /\ e.block = "tool_use"
  <2>1. IsOpen(r, c + 1, c + 1)
    <3>1. c + 1 \in At(r, StartTypes)
      BY <1>0, <1>6 DEF StartTypes
    <3>2. ASSUME NEW k \in At(r, StopTypes), r[k].index = r[c + 1].index PROVE k > c + 1
      <4>1. k \in At(r, InBlock)
        BY DEF At, StopTypes, InBlock
      <4>2. PICK j \in At(r, StartTypes) : j < k /\ r[j].index = r[k].index
        BY <4>1, BlockOf
      <4>3. j = c + 1
        BY <3>1, <3>2, <4>2, OneStart
      <4> QED BY <4>2, <4>3, <1>0
    <3> QED BY <1>0, <1>6, <3>1, <3>2 DEF IsOpen
  <2>2. \A j : IsOpen(r, c + 1, j) <=> IsOpen(r, c, j) \/ j = c + 1
    BY <1>1, <1>6, <2>1
  <2>3. \A x : x \in Live(r, c + 1) <=> x \in Live(r, c) \/ x = e.index
    BY <2>2, LiveIs
  <2> QED BY <1>6, <2>3
<1>7. CASE e.type = "content_block_stop"
  <2>1. c + 1 \in At(r, InBlock) /\ c + 1 \in At(r, StopTypes)
    BY <1>0, <1>7 DEF InBlock, StopTypes
  <2>2. \A j : IsOpen(r, c + 1, j) <=> IsOpen(r, c, j) /\ r[j].index # e.index
    <3>1. ASSUME NEW j, IsOpen(r, c + 1, j) PROVE IsOpen(r, c, j) /\ r[j].index # e.index
      <4>1. j # c + 1
        BY <1>3, <1>7, <3>1
      <4>2. j \in At(r, StartTypes) /\ j <= c + 1 /\ r[j].block = "tool_use"
        BY <3>1 DEF IsOpen
      <4>3. j <= c
        BY <1>0, <4>1, <4>2
      <4>4. \A k \in At(r, StopTypes) : r[k].index = r[j].index => k > c + 1
        BY <3>1 DEF IsOpen
      <4>5. r[j].index # e.index
        <5>1. ~(c + 1 > c + 1)
          OBVIOUS
        <5> QED BY <2>1, <4>4, <5>1
      <4>6. \A k \in At(r, StopTypes) : r[k].index = r[j].index => k > c
        BY <1>0, <4>4
      <4> QED BY <4>2, <4>3, <4>5, <4>6 DEF IsOpen
    <3>2. ASSUME NEW j, IsOpen(r, c, j), r[j].index # e.index PROVE IsOpen(r, c + 1, j)
      <4>1. j \in At(r, StartTypes) /\ j <= c /\ r[j].block = "tool_use"
        BY <3>2 DEF IsOpen
      <4>2. \A k \in At(r, StopTypes) : r[k].index = r[j].index => k > c /\ k # c + 1
        BY <3>2 DEF IsOpen
      <4>3. \A k \in At(r, StopTypes) : r[k].index = r[j].index => k > c + 1
        BY <1>0, <4>2
      <4>4. j <= c + 1
        BY <1>0, <4>1
      <4> QED BY <4>1, <4>3, <4>4 DEF IsOpen
    <3> QED BY <3>1, <3>2
  <2>3. \A x : x \in Live(r, c + 1) <=> x \in Live(r, c) /\ x # e.index
    BY <2>2, LiveIs
  <2> QED BY <1>7, <2>3
<1> QED BY <1>4, <1>5, <1>6, <1>7

\* The end of a tool_use block finds it open.
LEMMA EndsLive ==
  ASSUME NEW r, IsReply(r), NEW c \in Nat, c < Len(r), NEW e, e = r[c + 1], e.type = "content_block_stop"
  PROVE  e.index \in Live(r, c) <=> c + 1 \in ToolEnds(r)
<1>0. /\ Len(r) \in Nat /\ DOMAIN r = 1..Len(r) /\ c + 1 \in DOMAIN r
      /\ \A T : At(r, T) \subseteq 1..Len(r)
  BY ReplyIs DEF At
<1>1. c + 1 \in At(r, InBlock) /\ c + 1 \in At(r, StopTypes)
  BY <1>0 DEF At, InBlock, StopTypes
<1>2. PICK j \in At(r, StartTypes) : /\ j < c + 1 /\ r[j].index = r[c + 1].index
                                      /\ \A k \in At(r, StopTypes) : r[k].index = r[c + 1].index => k >= c + 1
  BY <1>1, BlockOf
<1>3. StartOf(r, e.index) = r[j]
  BY <1>2, StartIs
<1>4. c + 1 \in ToolEnds(r) <=> r[j].block = "tool_use"
  BY <1>1, <1>3 DEF ToolEnds, StopTypes
<1>5. ASSUME r[j].block = "tool_use" PROVE IsOpen(r, c, j)
  <2>1. j <= c
    BY <1>0, <1>2
  <2>2. \A k \in At(r, StopTypes) : r[k].index = r[j].index => k > c
    BY <1>0, <1>2
  <2> QED BY <1>5, <2>1, <2>2 DEF IsOpen
<1>6. ASSUME NEW i, IsOpen(r, c, i), r[i].index = e.index PROVE r[j].block = "tool_use"
  <2>1. i \in At(r, StartTypes) /\ r[i].block = "tool_use"
    BY <1>6 DEF IsOpen
  <2>2. i = j
    BY <1>2, <1>6, <2>1, OneStart
  <2> QED BY <2>1, <2>2
<1> QED BY <1>2, <1>4, <1>5, <1>6, LiveIs

---------------------------------------------------------------------------
(* What a reply has said after c events                                    *)

LEMMA TextsNext ==
  ASSUME NEW r, IsReply(r), NEW c \in Nat, c < Len(r), NEW e, e = r[c + 1]
  PROVE  InOrder(Texts(r), c + 1) = IF e.type = "text_delta" THEN Append(InOrder(Texts(r), c), Text(e.text))
                                    ELSE InOrder(Texts(r), c)
<1>1. c + 1 \in DOMAIN r
  BY ReplyIs
<1>2. c + 1 \in DOMAIN Texts(r) <=> e.type = "text_delta"
  BY <1>1 DEF Texts, At
<1>3. e.type = "text_delta" => Texts(r)[c + 1] = Text(e.text)
  BY <1>1 DEF Texts, At
<1> QED BY <1>2, <1>3, InOrderNext

LEMMA PartsNext ==
  ASSUME NEW r, IsReply(r), NEW c \in Nat, c < Len(r), NEW e, e = r[c + 1], NEW x
  PROVE  InOrder(Parts(r, x), c + 1) =
           IF e.type = "input_json_delta" /\ e.index = x THEN Append(InOrder(Parts(r, x), c), e.part)
           ELSE InOrder(Parts(r, x), c)
<1>1. c + 1 \in DOMAIN r
  BY ReplyIs
<1>2. c + 1 \in DOMAIN Parts(r, x) <=> e.type = "input_json_delta" /\ e.index = x
  BY <1>1 DEF Parts, At
<1>3. e.type = "input_json_delta" /\ e.index = x => Parts(r, x)[c + 1] = e.part
  BY <1>1 DEF Parts, At
<1> QED BY <1>2, <1>3, InOrderNext

\* A block's input is empty when it starts, and whole when it stops.
LEMMA PartsStart ==
  ASSUME NEW r, IsReply(r), NEW c \in Nat, c + 1 \in At(r, StartTypes), NEW x, x = r[c + 1].index
  PROVE  InOrder(Parts(r, x), c + 1) = <<>>
<1>1. \A i \in DOMAIN Parts(r, x) : i \in At(r, InBlock) /\ r[i].index = x /\ i \in Int
  BY ReplyIs DEF Parts, At, InBlock
<1>2. ASSUME NEW i \in 1..(c + 1) PROVE i \notin DOMAIN Parts(r, x)
  <2> SUFFICES ASSUME i \in DOMAIN Parts(r, x) PROVE FALSE
    OBVIOUS
  <2>1. i \in At(r, InBlock) /\ r[i].index = x
    BY <1>1
  <2>2. PICK j \in At(r, StartTypes) : j < i /\ r[j].index = r[i].index
    BY <2>1, BlockOf
  <2>3. j = c + 1
    BY <2>1, <2>2, OneStart
  <2> QED BY <2>2, <2>3
<1>3. InOrder(Parts(r, x), c + 1) = InOrder(Parts(r, x), 0)
  <2>1. PICK f : f = Parts(r, x)
    OBVIOUS
  <2>2. 0 \in Nat /\ c + 1 \in Nat /\ 0 <= c + 1 /\ \A k \in (0 + 1)..(c + 1) : k \notin DOMAIN f
    BY <1>2, <2>1
  <2>3. InOrder(f, c + 1) = InOrder(f, 0)
    BY <2>2, InOrderSkips
  <2> QED BY <2>1, <2>3
<1> QED BY <1>3, InOrderZero

LEMMA PartsStop ==
  ASSUME NEW r, IsReply(r), NEW c \in Nat, c < Len(r), r[c + 1].type = "content_block_stop",
         NEW x, x = r[c + 1].index
  PROVE  InOrder(Parts(r, x), c) = InOrder(Parts(r, x), Len(r))
<1>0. Len(r) \in Nat /\ DOMAIN r = 1..Len(r) /\ c + 1 \in DOMAIN r
  BY ReplyIs
<1>1. c + 1 \in At(r, StopTypes)
  BY <1>0 DEF At, StopTypes
<1>2. ASSUME NEW i \in (c + 1)..Len(r) PROVE i \notin DOMAIN Parts(r, x)
  <2> SUFFICES ASSUME i \in DOMAIN Parts(r, x) PROVE FALSE
    OBVIOUS
  <2>1. i \in At(r, InBlock) /\ r[i].index = x /\ r[i].type = "input_json_delta"
    BY DEF Parts, At, InBlock
  <2>2. PICK j \in At(r, StartTypes) : \A k \in At(r, StopTypes) : r[k].index = r[i].index => k >= i
    BY <2>1, BlockOf
  <2>3. c + 1 >= i
    BY <1>1, <2>1, <2>2
  <2>4. i = c + 1
    BY <1>0, <2>3
  <2> QED BY <2>1, <2>4
<1>3. PICK f : f = Parts(r, x)
  OBVIOUS
<1>4. PICK n : n = Len(r)
  OBVIOUS
<1>5. n \in Nat /\ c <= n /\ \A k \in (c + 1)..n : k \notin DOMAIN f
  BY <1>0, <1>2, <1>3, <1>4
<1>6. InOrder(f, n) = InOrder(f, c)
  BY <1>5, InOrderSkips
<1> QED BY <1>3, <1>4, <1>6

LEMMA CallsNext ==
  ASSUME NEW r, IsReply(r), NEW c \in Nat, c < Len(r), NEW e, e = r[c + 1]
  PROVE  /\ c + 1 \notin ToolEnds(r) => InOrder(Calls(r), c + 1) = InOrder(Calls(r), c)
         /\ c + 1 \in ToolEnds(r) =>
              InOrder(Calls(r), c + 1) =
                Append(InOrder(Calls(r), c), ToolCall(StartOf(r, e.index).id, InOrder(Parts(r, e.index), Len(r))))
<1>1. PICK f : f = Calls(r)
  OBVIOUS
<1>2. DOMAIN f = ToolEnds(r)
  BY <1>1 DEF Calls
<1>3. c + 1 \in ToolEnds(r) => f[c + 1] = ToolCall(StartOf(r, e.index).id, InOrder(Parts(r, e.index), Len(r)))
  BY <1>1 DEF Calls
<1>4. InOrder(f, c + 1) = IF c + 1 \in DOMAIN f THEN Append(InOrder(f, c), f[c + 1]) ELSE InOrder(f, c)
  BY InOrderNext
<1> QED BY <1>1, <1>2, <1>3, <1>4

---------------------------------------------------------------------------
(* tool_inputs                                                             *)

\* The open blocks with what has come for them.
BlocksFact(t, r, c) ==
  /\ DOMAIN t = Live(r, c)
  /\ \A x \in Live(r, c) : t[x] = [id |-> StartOf(r, x).id, json |-> InOrder(Parts(r, x), c)]

LEMMA BlocksStart ==
  ASSUME NEW r, IsReply(r), NEW c \in Nat, c < Len(r), NEW e, e = r[c + 1], NEW t, BlocksFact(t, r, c),
         e.type = "content_block_start",
         NEW u, u = IF e.block = "tool_use"
                    THEN [i \in DOMAIN t \cup {e.index} |->
                            IF i = e.index THEN [id |-> e.id, json |-> <<>>] ELSE t[i]]
                    ELSE t
  PROVE  BlocksFact(u, r, c + 1)
<1>1. \A x : InOrder(Parts(r, x), c + 1) = InOrder(Parts(r, x), c)
  BY PartsNext
<1>2. CASE e.block # "tool_use"
  <2>1. Live(r, c + 1) = Live(r, c) /\ u = t
    BY <1>2, LiveNext
  <2> QED BY <1>1, <2>1 DEF BlocksFact
<1>3. CASE e.block = "tool_use"
  <2>1. Live(r, c + 1) = Live(r, c) \cup {e.index}
    BY <1>3, LiveNext
  <2>2. c + 1 \in At(r, StartTypes)
    BY ReplyIs DEF At, StartTypes
  <2>3. StartOf(r, e.index) = e /\ InOrder(Parts(r, e.index), c + 1) = <<>>
    BY <2>2, StartIs, PartsStart
  <2>4. DOMAIN t = Live(r, c)
    BY DEF BlocksFact
  <2>5. /\ DOMAIN u = Live(r, c + 1) /\ u[e.index] = [id |-> e.id, json |-> <<>>]
        /\ \A x \in Live(r, c) : x # e.index => u[x] = t[x]
    BY <1>3, <2>1, <2>4
  <2>6. ASSUME NEW x \in Live(r, c + 1)
        PROVE  u[x] = [id |-> StartOf(r, x).id, json |-> InOrder(Parts(r, x), c + 1)]
    <3>1. CASE x = e.index
      BY <2>3, <2>5, <3>1
    <3>2. CASE x # e.index
      <4>1. x \in Live(r, c) /\ u[x] = t[x]
        BY <2>1, <2>5, <3>2
      <4> QED BY <1>1, <4>1 DEF BlocksFact
    <3> QED BY <3>1, <3>2
  <2> QED BY <2>5, <2>6 DEF BlocksFact
<1> QED BY <1>2, <1>3

LEMMA BlocksInput ==
  ASSUME NEW r, IsReply(r), NEW c \in Nat, c < Len(r), NEW e, e = r[c + 1], NEW t, BlocksFact(t, r, c),
         e.type = "input_json_delta",
         NEW u, u = IF e.index \in DOMAIN t
                    THEN [t EXCEPT ![e.index] = [id |-> @.id, json |-> Append(@.json, e.part)]] ELSE t
  PROVE  BlocksFact(u, r, c + 1)
<1>1. Live(r, c + 1) = Live(r, c) /\ DOMAIN t = Live(r, c) /\ DOMAIN u = DOMAIN t
  BY LiveNext DEF BlocksFact
<1>2. ASSUME NEW x \in Live(r, c)
      PROVE  u[x] = [id |-> StartOf(r, x).id, json |-> InOrder(Parts(r, x), c + 1)]
  <2>1. PICK a : a = StartOf(r, x).id
    OBVIOUS
  <2>2. PICK j : j = InOrder(Parts(r, x), c)
    OBVIOUS
  <2>3. t[x] = [id |-> a, json |-> j] /\ x \in DOMAIN t
    BY <1>1, <2>1, <2>2 DEF BlocksFact
  <2>4. CASE x = e.index
    <3>1. InOrder(Parts(r, x), c + 1) = Append(j, e.part)
      BY <2>2, <2>4, PartsNext
    <3>2. PICK p : p = e.part
      OBVIOUS
    <3>3. u[x] = [id |-> t[x].id, json |-> Append(t[x].json, p)]
      BY <2>3, <2>4, <3>2
    <3>4. u[x] = [id |-> a, json |-> Append(j, p)]
      BY <2>3, <3>3
    <3> QED BY <2>1, <3>1, <3>2, <3>4
  <2>5. CASE x # e.index
    <3>1. InOrder(Parts(r, x), c + 1) = j
      BY <2>2, <2>5, PartsNext
    <3>2. u[x] = t[x]
      BY <2>3, <2>5
    <3> QED BY <2>1, <2>3, <3>1, <3>2
  <2> QED BY <2>4, <2>5
<1> QED BY <1>1, <1>2 DEF BlocksFact

LEMMA BlocksStop ==
  ASSUME NEW r, IsReply(r), NEW c \in Nat, c < Len(r), NEW e, e = r[c + 1], NEW t, BlocksFact(t, r, c),
         e.type = "content_block_stop",
         NEW u, u = IF e.index \notin DOMAIN t THEN t ELSE [i \in DOMAIN t \ {e.index} |-> t[i]]
  PROVE  BlocksFact(u, r, c + 1)
<1>1. Live(r, c + 1) = Live(r, c) \ {e.index} /\ DOMAIN t = Live(r, c)
  BY LiveNext DEF BlocksFact
<1>2. DOMAIN u = Live(r, c + 1) /\ \A x \in Live(r, c + 1) : u[x] = t[x] /\ x \in Live(r, c)
  BY <1>1
<1>3. \A x : InOrder(Parts(r, x), c + 1) = InOrder(Parts(r, x), c)
  BY PartsNext
<1> QED BY <1>2, <1>3 DEF BlocksFact

LEMMA BlocksOther ==
  ASSUME NEW r, IsReply(r), NEW c \in Nat, c < Len(r), NEW e, e = r[c + 1], NEW t, BlocksFact(t, r, c),
         e.type \notin {"content_block_start", "content_block_stop", "input_json_delta"}
  PROVE  BlocksFact(t, r, c + 1)
<1>1. Live(r, c + 1) = Live(r, c)
  BY LiveNext
<1>2. \A x : InOrder(Parts(r, x), c + 1) = InOrder(Parts(r, x), c)
  BY PartsNext
<1> QED BY <1>1, <1>2 DEF BlocksFact

\* The call of a block that ends is the one that the reply makes.
LEMMA EndsCall ==
  ASSUME NEW r, IsReply(r), NEW c \in Nat, c < Len(r), NEW e, e = r[c + 1], NEW t, BlocksFact(t, r, c),
         e.type = "content_block_stop"
  PROVE  /\ e.index \notin DOMAIN t => InOrder(Calls(r), c + 1) = InOrder(Calls(r), c)
         /\ e.index \in DOMAIN t => InOrder(Calls(r), c + 1) =
              Append(InOrder(Calls(r), c), ToolCall(t[e.index].id, t[e.index].json))
<1>1. e.index \in DOMAIN t <=> c + 1 \in ToolEnds(r)
  BY EndsLive DEF BlocksFact
<1>2. CASE e.index \notin DOMAIN t
  BY <1>1, <1>2, CallsNext
<1>3. CASE e.index \in DOMAIN t
  <2>1. t[e.index].id = StartOf(r, e.index).id /\ t[e.index].json = InOrder(Parts(r, e.index), c)
    BY <1>3 DEF BlocksFact
  <2>2. InOrder(Parts(r, e.index), c) = InOrder(Parts(r, e.index), Len(r))
    BY PartsStop
  <2>3. ToolCall(t[e.index].id, t[e.index].json)
          = ToolCall(StartOf(r, e.index).id, InOrder(Parts(r, e.index), Len(r)))
    BY <2>1, <2>2
  <2>4. InOrder(Calls(r), c + 1) = Append(InOrder(Calls(r), c),
          ToolCall(StartOf(r, e.index).id, InOrder(Parts(r, e.index), Len(r))))
    BY <1>1, <1>3, CallsNext
  <2> QED BY <1>3, <2>3, <2>4
<1> QED BY <1>2, <1>3

LEMMA OtherCalls ==
  ASSUME NEW r, IsReply(r), NEW c \in Nat, c < Len(r), r[c + 1].type # "content_block_stop"
  PROVE  InOrder(Calls(r), c + 1) = InOrder(Calls(r), c)
<1>1. c + 1 \notin ToolEnds(r)
  BY DEF ToolEnds, At
<1> QED BY <1>1, CallsNext

---------------------------------------------------------------------------
(* The channel                                                             *)

LEMMA Grown ==
  ASSUME NEW s, IsSeq(s), NEW e
  PROVE  /\ IsSeq(Append(s, e)) /\ Len(s) \in Nat /\ Len(Append(s, e)) = Len(s) + 1
         /\ DOMAIN s = 1..Len(s) /\ DOMAIN Append(s, e) = 1..(Len(s) + 1)
         /\ \A i \in 1..Len(s) : Append(s, e)[i] = s[i]
         /\ Append(s, e)[Len(s) + 1] = e
<1>1. PICK S : s \in Seq(S)
  BY DEF IsSeq
<1>2. PICK T : T = S \cup {e}
  OBVIOUS
<1>3. s \in Seq(T) /\ e \in T
  BY <1>1, <1>2, SeqMonotonic
<1>4. Append(s, e) \in Seq(T) /\ Len(s) \in Nat /\ DOMAIN s = 1..Len(s)
  BY <1>3, AppendProperties, LenProperties
<1>5. /\ Len(Append(s, e)) = Len(s) + 1 /\ \A i \in 1..Len(s) : Append(s, e)[i] = s[i]
      /\ Append(s, e)[Len(s) + 1] = e
  BY <1>3, AppendProperties
<1>6. DOMAIN Append(s, e) = 1..(Len(s) + 1)
  BY <1>4, <1>5, LenProperties
<1> QED BY <1>4, <1>5, <1>6 DEF IsSeq

LEMMA OnlyGrows ==
  ASSUME NEW s, IsSeq(s), NEW e, NEW ty
  PROVE  /\ \A n \in 0..Len(s) : InOrder(Only(Append(s, e), ty), n) = InOrder(Only(s, ty), n)
         /\ InOrder(Only(Append(s, e), ty), Len(s) + 1) =
              IF e.type = ty THEN Append(InOrder(Only(s, ty), Len(s)), e) ELSE InOrder(Only(s, ty), Len(s))
<1>1. PICK t : t = Append(s, e)
  OBVIOUS
<1>2. PICK N : N = Len(s)
  OBVIOUS
<1>3. /\ N \in Nat /\ DOMAIN s = 1..N /\ DOMAIN t = 1..(N + 1)
      /\ \A i \in 1..N : t[i] = s[i]
      /\ t[N + 1] = e
  BY <1>1, <1>2, Grown
<1>4. PICK f : f = Only(s, ty)
  OBVIOUS
<1>5. PICK g : g = Only(t, ty)
  OBVIOUS
<1>6. /\ DOMAIN f = {i \in 1..N : s[i].type = ty} /\ \A i \in DOMAIN f : f[i] = s[i]
      /\ DOMAIN g = {i \in 1..(N + 1) : t[i].type = ty} /\ \A i \in DOMAIN g : g[i] = t[i]
  BY <1>3, <1>4, <1>5 DEF Only, At
<1>7. \A k \in 1..N : (k \in DOMAIN g <=> k \in DOMAIN f) /\ (k \in DOMAIN g => g[k] = f[k])
  BY <1>3, <1>6
<1>8. ASSUME NEW n \in 0..N PROVE InOrder(g, n) = InOrder(f, n)
  <2>1. n \in Nat /\ \A k \in 1..n : (k \in DOMAIN g <=> k \in DOMAIN f) /\ (k \in DOMAIN g => g[k] = f[k])
    BY <1>3, <1>7
  <2> QED BY <2>1, InOrderAgree
<1>9. InOrder(g, N) = InOrder(f, N)
  BY <1>3, <1>8
<1>10. InOrder(g, N + 1) = IF N + 1 \in DOMAIN g THEN Append(InOrder(g, N), g[N + 1]) ELSE InOrder(g, N)
  BY <1>3, InOrderNext
<1>11. (N + 1 \in DOMAIN g <=> e.type = ty) /\ (e.type = ty => g[N + 1] = e)
  BY <1>3, <1>6
<1>12. InOrder(g, N + 1) = IF e.type = ty THEN Append(InOrder(f, N), e) ELSE InOrder(f, N)
  BY <1>9, <1>10, <1>11
<1> QED BY <1>1, <1>2, <1>4, <1>5, <1>8, <1>12

LEMMA OnlySkips ==
  ASSUME NEW s, IsSeq(s), NEW e, NEW ty, e.type # ty
  PROVE  InOrder(Only(Append(s, e), ty), Len(s) + 1) = InOrder(Only(s, ty), Len(s))
BY OnlyGrows

ErrorFree(s, n) == \A i \in 1..n : s[i] # Stop(Error)

\* What s holds is what the first c events of r say: all their text, and
\* their calls up to the first error.
SentFact(s, r, c) ==
  /\ IsSeq(s)
  /\ InOrder(Only(s, "Text"), Len(s)) = InOrder(Texts(r), c)
  /\ \A n \in 0..Len(s) :
       ErrorFree(s, n) => \E m \in 0..c : InOrder(Only(s, "ToolCall"), n) = InOrder(Calls(r), m)
  /\ ErrorFree(s, Len(s)) => InOrder(Only(s, "ToolCall"), Len(s)) = InOrder(Calls(r), c)

LEMMA SentSame ==
  ASSUME NEW s, NEW r, NEW c \in Nat, SentFact(s, r, c),
         InOrder(Texts(r), c + 1) = InOrder(Texts(r), c), InOrder(Calls(r), c + 1) = InOrder(Calls(r), c)
  PROVE  SentFact(s, r, c + 1)
<1>1. 0..c \subseteq 0..(c + 1)
  OBVIOUS
<1> QED BY <1>1 DEF SentFact

LEMMA SentGrows ==
  ASSUME NEW s, NEW r, NEW c \in Nat, SentFact(s, r, c), NEW e, NEW d \in Nat, c <= d,
         InOrder(Texts(r), d) =
           IF e.type = "Text" THEN Append(InOrder(Texts(r), c), e) ELSE InOrder(Texts(r), c),
         e # Stop(Error) => InOrder(Calls(r), d) =
           IF e.type = "ToolCall" THEN Append(InOrder(Calls(r), c), e) ELSE InOrder(Calls(r), c)
  PROVE  SentFact(Append(s, e), r, d)
<1>0. IsSeq(s)
  BY DEF SentFact
<1>1. PICK t : t = Append(s, e)
  OBVIOUS
<1>2. PICK N : N = Len(s)
  OBVIOUS
<1>3. /\ N \in Nat /\ IsSeq(t) /\ Len(t) = N + 1
      /\ \A i \in 1..N : t[i] = s[i]
      /\ t[N + 1] = e
  BY <1>0, <1>1, <1>2, Grown
<1>4. \A n \in 0..N : InOrder(Only(t, "ToolCall"), n) = InOrder(Only(s, "ToolCall"), n)
  BY <1>0, <1>1, <1>2, OnlyGrows
<1>5. InOrder(Only(t, "ToolCall"), N + 1) =
        IF e.type = "ToolCall" THEN Append(InOrder(Only(s, "ToolCall"), N), e) ELSE InOrder(Only(s, "ToolCall"), N)
  BY <1>0, <1>1, <1>2, OnlyGrows
<1>6. InOrder(Only(t, "Text"), N + 1) =
        IF e.type = "Text" THEN Append(InOrder(Only(s, "Text"), N), e) ELSE InOrder(Only(s, "Text"), N)
  BY <1>0, <1>1, <1>2, OnlyGrows
<1>7. InOrder(Only(t, "Text"), N + 1) = InOrder(Texts(r), d)
  BY <1>2, <1>6 DEF SentFact
<1>8. ASSUME ErrorFree(t, N + 1) PROVE InOrder(Only(t, "ToolCall"), N + 1) = InOrder(Calls(r), d)
  <2>1. e # Stop(Error) /\ ErrorFree(s, N)
    BY <1>3, <1>8 DEF ErrorFree
  <2>2. InOrder(Only(s, "ToolCall"), N) = InOrder(Calls(r), c)
    BY <1>2, <2>1 DEF SentFact
  <2>3. CASE e.type = "ToolCall"
    <3>1. InOrder(Calls(r), d) = Append(InOrder(Calls(r), c), e)
      BY <2>1, <2>3
    <3>2. InOrder(Only(t, "ToolCall"), N + 1) = Append(InOrder(Only(s, "ToolCall"), N), e)
      BY <1>5, <2>3
    <3> QED BY <2>2, <3>1, <3>2, Zenon
  <2>4. CASE e.type # "ToolCall"
    <3>1. InOrder(Calls(r), d) = InOrder(Calls(r), c)
      BY <2>1, <2>4
    <3>2. InOrder(Only(t, "ToolCall"), N + 1) = InOrder(Only(s, "ToolCall"), N)
      BY <1>5, <2>4
    <3> QED BY <2>2, <3>1, <3>2, Zenon
  <2> QED BY <2>3, <2>4
<1>9. ASSUME NEW n \in 0..(N + 1), ErrorFree(t, n)
      PROVE  \E m \in 0..d : InOrder(Only(t, "ToolCall"), n) = InOrder(Calls(r), m)
  <2>1. CASE n = N + 1
    BY <1>8, <1>9, <2>1
  <2>2. CASE n \in 0..N
    <3>1. ErrorFree(s, n)
      BY <1>3, <1>9, <2>2 DEF ErrorFree
    <3>2. PICK m \in 0..c : InOrder(Only(s, "ToolCall"), n) = InOrder(Calls(r), m)
      BY <1>2, <2>2, <3>1 DEF SentFact
    <3>3. m \in 0..d
      OBVIOUS
    <3> QED BY <1>4, <2>2, <3>2, <3>3
  <2> QED BY <1>3, <2>1, <2>2
<1> QED BY <1>1, <1>3, <1>7, <1>8, <1>9 DEF SentFact

---------------------------------------------------------------------------
(* The end of a stream                                                     *)

\* Only errors have ended s so far.
NoEnd(s) == \A i \in 1..Len(s) : s[i].type # "Usage" /\ (IsStop(s[i]) => s[i] = Stop(Error))

\* A Stop that is no error is the last of s, and the totals are before it.
GoodEnd(s, reason, u) ==
  \A i \in 1..Len(s) : IsStop(s[i]) /\ s[i] # Stop(Error) =>
    /\ i = Len(s) /\ reason # NoReason /\ s[i] = Stop(reason)
    /\ UsageOf(s) = IF u = NoUsage THEN <<>> ELSE <<Usage(u)>>

LEMMA NoEndGrows ==
  ASSUME NEW s, IsSeq(s), NoEnd(s), NEW e, e.type # "Usage", IsStop(e) => e = Stop(Error)
  PROVE  NoEnd(Append(s, e))
<1>1. PICK t : t = Append(s, e)
  OBVIOUS
<1>2. /\ Len(s) \in Nat /\ Len(t) = Len(s) + 1 /\ \A i \in 1..Len(s) : t[i] = s[i]
      /\ t[Len(s) + 1] = e
  BY <1>1, Grown
<1>3. ASSUME NEW i \in 1..Len(t) PROVE t[i].type # "Usage" /\ (IsStop(t[i]) => t[i] = Stop(Error))
  <2>1. CASE i \in 1..Len(s)
    BY <1>2, <2>1 DEF NoEnd
  <2>2. CASE i = Len(s) + 1
    BY <1>2, <2>2
  <2> QED BY <1>2, <2>1, <2>2
<1> QED BY <1>1, <1>3 DEF NoEnd

LEMMA NoUsageYet ==
  ASSUME NEW s, IsSeq(s), NoEnd(s)
  PROVE  InOrder(Only(s, "Usage"), Len(s)) = <<>>
<1>1. PICK f : f = Only(s, "Usage")
  OBVIOUS
<1>2. PICK N : N = Len(s)
  OBVIOUS
<1>3. N \in Nat
  BY <1>2, Grown
<1>4. 0 \in Nat /\ 0 <= N /\ \A k \in (0 + 1)..N : k \notin DOMAIN f
  BY <1>1, <1>2, <1>3 DEF Only, At, NoEnd
<1>5. InOrder(f, N) = InOrder(f, 0)
  BY <1>3, <1>4, InOrderSkips
<1> QED BY <1>1, <1>2, <1>5, InOrderZero

\* How Finishes ends s.
LEMMA EndsWell ==
  ASSUME NEW s, IsSeq(s), NoEnd(s), NEW reason, NEW u, NEW v, NEW t,
         v = IF u = NoUsage THEN s ELSE Append(s, Usage(u)),
         t = Append(v, Stop(IF reason = NoReason THEN Error ELSE reason))
  PROVE  GoodEnd(t, reason, u)
<1>1. PICK stop : stop = Stop(IF reason = NoReason THEN Error ELSE reason)
  OBVIOUS
<1>2. IsSeq(v) /\ t = Append(v, stop) /\ stop.type = "Stop"
  <2>1. IsSeq(v)
    BY Grown
  <2> QED BY <1>1, <2>1 DEF Stop
<1>3. /\ Len(v) \in Nat /\ Len(t) = Len(v) + 1
      /\ \A i \in 1..Len(v) : t[i] = v[i]
      /\ t[Len(v) + 1] = stop
  BY <1>2, Grown
<1>4. InOrder(Only(t, "Usage"), Len(v) + 1) = InOrder(Only(v, "Usage"), Len(v))
  <2>1. stop.type # "Usage"
    BY <1>2
  <2>2. InOrder(Only(Append(v, stop), "Usage"), Len(v) + 1) = InOrder(Only(v, "Usage"), Len(v))
    BY <1>2, <2>1, OnlySkips
  <2>3. Append(v, stop) = t
    BY <1>2
  <2> QED BY <2>2, <2>3, Zenon
<1>5. /\ InOrder(Only(v, "Usage"), Len(v)) = IF u = NoUsage THEN <<>> ELSE <<Usage(u)>>
      /\ \A i \in 1..Len(v) : IsStop(v[i]) => v[i] = Stop(Error)
  <2>1. CASE u = NoUsage
    BY <2>1, NoUsageYet DEF NoEnd
  <2>2. CASE u # NoUsage
    <3>1. PICK e : e = Usage(u)
      OBVIOUS
    <3>2. v = Append(s, e) /\ e.type = "Usage" /\ ~IsStop(e)
      BY <2>2, <3>1 DEF Usage, IsStop
    <3>3. /\ Len(s) \in Nat /\ Len(v) = Len(s) + 1 /\ \A i \in 1..Len(s) : v[i] = s[i]
          /\ v[Len(s) + 1] = e
      BY <3>2, Grown
    <3>4. InOrder(Only(v, "Usage"), Len(s) + 1) = Append(InOrder(Only(s, "Usage"), Len(s)), e)
      <4>1. v = Append(s, e) /\ e.type = "Usage"
        BY <3>2
      <4> QED BY <4>1, OnlyGrows, ZenonT(60)
    <3>5. InOrder(Only(v, "Usage"), Len(v)) = Append(<<>>, e)
      BY <3>3, <3>4, NoUsageYet
    <3>6. Append(<<>>, e) = <<e>>
      OBVIOUS
    <3>7. ASSUME NEW i \in 1..Len(v), IsStop(v[i]) PROVE v[i] = Stop(Error)
      <4>1. i \in 1..Len(s)
        BY <3>2, <3>3, <3>7
      <4> QED BY <3>3, <3>7, <4>1 DEF NoEnd
    <3> QED BY <2>2, <3>1, <3>5, <3>6, <3>7
  <2> QED BY <2>1, <2>2
<1>6. ASSUME NEW i \in 1..Len(t), IsStop(t[i]), t[i] # Stop(Error)
      PROVE  i = Len(t) /\ reason # NoReason /\ t[i] = Stop(reason)
  <2>1. i = Len(v) + 1
    BY <1>3, <1>5, <1>6
  <2> QED BY <1>1, <1>3, <1>6, <2>1
<1>7. UsageOf(t) = IF u = NoUsage THEN <<>> ELSE <<Usage(u)>>
  BY <1>3, <1>4, <1>5 DEF UsageOf
<1> QED BY <1>6, <1>7 DEF GoodEnd

---------------------------------------------------------------------------
(* stop_reason and usage                                                   *)

Deltas(r) == At(r, {"message_delta"})

\* The reason of an event among the first c, if one of them has a reason.
ReasonFact(q, r, c) ==
  \/ q = NoReason /\ \A i \in Deltas(r) : i <= c => r[i].reason = NoReason
  \/ \E i \in Deltas(r) : /\ i <= c /\ r[i].reason # NoReason
                           /\ q = IF r[i].reason \in StopReasons THEN r[i].reason ELSE Error

\* The input of message_start and the output of the last message_delta.
UsageFact(u, r, c) ==
  /\ c > 0 => u = [input |-> r[1].input, output |-> u.output]
  /\ \A i \in Deltas(r) : i <= c /\ (\A j \in Deltas(r) : j <= c => j <= i) => u.output = r[i].output

LEMMA ReasonNext ==
  ASSUME NEW r, IsReply(r), NEW c \in Nat, c < Len(r), NEW e, e = r[c + 1], NEW q, ReasonFact(q, r, c)
  PROVE  /\ e.type # "message_delta" => ReasonFact(q, r, c + 1)
         /\ e.type = "message_delta" =>
              ReasonFact(IF e.reason = NoReason THEN q ELSE IF e.reason \in StopReasons THEN e.reason ELSE Error,
                         r, c + 1)
<1>1. c + 1 \in DOMAIN r /\ DOMAIN r = 1..Len(r) /\ Len(r) \in Nat
  BY ReplyIs
<1>2. Deltas(r) \subseteq 1..Len(r) /\ (c + 1 \in Deltas(r) <=> e.type = "message_delta")
  BY <1>1 DEF Deltas, At
<1>3. \A i \in Deltas(r) : i <= c + 1 <=> i <= c \/ i = c + 1
  BY <1>1, <1>2
<1>4. CASE e.type # "message_delta"
  <2>1. \A i \in Deltas(r) : i <= c + 1 <=> i <= c
    BY <1>2, <1>3, <1>4
  <2> QED BY <1>4, <2>1 DEF ReasonFact
<1>5. CASE e.type = "message_delta" /\ e.reason = NoReason
  <2>1. ReasonFact(q, r, c + 1)
    BY <1>2, <1>3, <1>5 DEF ReasonFact
  <2> QED BY <1>5, <2>1
<1>6. CASE e.type = "message_delta" /\ e.reason # NoReason
  <2>1. c + 1 \in Deltas(r) /\ c + 1 <= c + 1
    BY <1>2, <1>6
  <2>2. ReasonFact(IF e.reason \in StopReasons THEN e.reason ELSE Error, r, c + 1)
    BY <1>6, <2>1 DEF ReasonFact
  <2> QED BY <1>6, <2>2
<1> QED BY <1>4, <1>5, <1>6

LEMMA FirstIs ==
  ASSUME NEW r, IsReply(r)
  PROVE  r[1].type = "message_start" /\ \A i \in DOMAIN r : r[i].type = "message_start" => i = 1
BY DEF IsReply, At

LEMMA UsageNext ==
  ASSUME NEW r, IsReply(r), NEW c \in Nat, c < Len(r), NEW e, e = r[c + 1], NEW u, UsageFact(u, r, c)
  PROVE  /\ e.type = "message_start" => UsageFact([input |-> e.input, output |-> e.output], r, c + 1)
         /\ e.type = "message_delta" => UsageFact([u EXCEPT !.output = e.output], r, c + 1)
         /\ e.type \notin {"message_start", "message_delta"} => UsageFact(u, r, c + 1)
<1>1. c + 1 \in DOMAIN r /\ DOMAIN r = 1..Len(r) /\ Len(r) \in Nat
  BY ReplyIs
<1>2. Deltas(r) \subseteq 1..Len(r) /\ (c + 1 \in Deltas(r) <=> e.type = "message_delta")
  BY <1>1 DEF Deltas, At
<1>3. \A i \in Deltas(r) : i <= c + 1 <=> i <= c \/ i = c + 1
  BY <1>1, <1>2
<1>4. e.type = "message_start" <=> c = 0
  BY <1>1, FirstIs
<1>5. CASE e.type = "message_start"
  <2>1. c = 0
    BY <1>4, <1>5
  <2>2. \A i \in Deltas(r) : ~(i <= c + 1)
    BY <1>2, <1>3, <1>5, <2>1
  <2>3. r[1] = e
    BY <2>1
  <2> QED BY <1>5, <2>2, <2>3 DEF UsageFact
<1>6. CASE e.type = "message_delta"
  <2>1. PICK a : a = r[1].input
    OBVIOUS
  <2>2. PICK o : o = e.output
    OBVIOUS
  <2>3. u = [input |-> a, output |-> u.output]
    BY <1>4, <1>6, <2>1 DEF UsageFact
  <2>4. PICK v : v = [u EXCEPT !.output = o]
    OBVIOUS
  <2>5. v = [input |-> a, output |-> o]
    BY <2>3, <2>4
  <2>6. ASSUME NEW i \in Deltas(r), i <= c + 1, \A j \in Deltas(r) : j <= c + 1 => j <= i
        PROVE  i = c + 1
    BY <1>1, <1>2, <1>6, <2>6
  <2>7. UsageFact(v, r, c + 1)
    BY <2>1, <2>2, <2>5, <2>6 DEF UsageFact
  <2> QED BY <1>6, <2>2, <2>4, <2>7
<1>7. CASE e.type \notin {"message_start", "message_delta"}
  <2>1. c > 0 /\ \A i \in Deltas(r) : i <= c + 1 <=> i <= c
    BY <1>2, <1>3, <1>4, <1>7
  <2> QED BY <1>7, <2>1 DEF UsageFact
<1> QED BY <1>5, <1>6, <1>7

---------------------------------------------------------------------------
(* The stream                                                              *)

\* c events of the reply have been taken out of the buffer.
Taken(c) ==
  /\ Holds(buf, reply, style, c) /\ Arrived(delivered, buf, style, c)
  /\ BlocksFact(tool_inputs, reply, c) /\ ReasonFact(stop_reason, reply, c) /\ UsageFact(usage, reply, c)
  /\ SentFact(sent, reply, c)

StreamInv ==
  /\ reply \in Replies \cup {<<>>}
  /\ pump \in {"none", "read", "drain", "flush", "closed"}
  /\ \E c \in Nat : Taken(c)
  /\ pump # "closed" => NoEnd(sent)
  /\ GoodEnd(sent, stop_reason, usage)

LEMMA NoGoodEnd == ASSUME NEW s, NoEnd(s), NEW q, NEW u PROVE GoodEnd(s, q, u)
BY DEF NoEnd, GoodEnd

LEMMA Typed ==
  ASSUME reply \in Replies \cup {<<>>}
  PROVE  /\ Len(reply) \in Nat /\ DOMAIN reply = 1..Len(reply)
         /\ \A i \in 1..Len(reply) : reply[i].type \in EventTypes
         /\ Len(reply) > 0 => reply \in Replies /\ IsReply(reply)
<1>1. CASE reply \in Replies
  <2>1. IsReply(reply)
    BY <1>1, StreamAssumption
  <2> QED BY <1>1, <2>1, ReplyIs
<1>2. CASE reply = <<>>
  <2>1. Len(reply) = 0 /\ DOMAIN reply = 1..0
    BY <1>2
  <2> QED BY <2>1
<1> QED BY <1>1, <1>2

\* The event taken is the next of the reply.
LEMMA TakesIs ==
  ASSUME NEW c \in Nat, Taken(c), reply \in Replies \cup {<<>>}, NEW e, Takes(e)
  PROVE  /\ IsReply(reply) /\ c < Len(reply) /\ e = reply[c + 1]
         /\ Holds(buf', reply, style, c + 1) /\ Arrived(delivered, buf', style, c + 1)
         /\ UNCHANGED <<reply, style, delivered, pump>> /\ pump # "closed"
<1>1. /\ Boundary(buf).end > 0 /\ e = Parsed(SubSeq(buf, 1, Boundary(buf).payload))
      /\ buf' = SubSeq(buf, Boundary(buf).end + 1, Len(buf))
      /\ UNCHANGED <<reply, style, delivered, pump>> /\ pump # "closed"
  BY DEF Takes, Draining, netvars
<1>2. IF Len(buf) < Width(style) THEN Boundary(buf).end = 0
      ELSE /\ c < Len(reply) /\ Boundary(buf).end = Width(style)
           /\ Parsed(SubSeq(buf, 1, Boundary(buf).payload)) = reply[c + 1]
  BY Typed, BoundaryIs DEF Taken
<1>3. /\ ~(Len(buf) < Width(style)) /\ c < Len(reply) /\ Boundary(buf).end = Width(style)
      /\ e = reply[c + 1]
  BY <1>1, <1>2
<1>4. Len(buf) >= Width(style) /\ Len(reply) \in Nat
  BY <1>3 DEF Taken, Holds, Width
<1>5. IsReply(reply)
  BY <1>3, <1>4, Typed
<1>6. buf' = SubSeq(buf, Width(style) + 1, Len(buf))
  BY <1>1, <1>3
<1>7. Holds(buf', reply, style, c + 1) /\ Arrived(delivered, buf', style, c + 1)
  BY <1>4, <1>6, HoldsLess DEF Taken
<1> QED BY <1>1, <1>3, <1>5, <1>7

LEMMA Twice == ASSUME NEW s, IsSeq(s), NEW a, NEW b PROVE s \o <<a, b>> = Append(Append(s, a), b)
<1>1. PICK S : s \in Seq(S)
  BY DEF IsSeq
<1>2. PICK T : T = S \cup {a, b}
  OBVIOUS
<1>3. s \in Seq(T) /\ a \in T /\ b \in T
  BY <1>1, <1>2, SeqMonotonic
<1>4. PICK t : t = Append(s, a)
  OBVIOUS
<1>5. t \in Seq(T) /\ t = s \o <<a>> /\ Append(t, b) = t \o <<b>>
  BY <1>3, <1>4, AppendProperties, AppendIsConcat
<1>6. <<a>> \in Seq(T) /\ <<b>> \in Seq(T) /\ <<a>> \o <<b>> = <<a, b>>
  <2>1. <<a>> \in Seq(T)
    BY <1>3
  <2>2. <<b>> \in Seq(T)
    BY <1>3
  <2>3. <<a>> \o <<b>> = <<a, b>>
    <3>1. Append(<<a>>, b) = <<a>> \o <<b>>
      BY <1>3, <2>1, AppendIsConcat
    <3>2. PICK v : v = Append(<<a>>, b)
      OBVIOUS
    <3>3. v \in Seq(T) /\ Len(v) = 2 /\ v[1] = a /\ v[2] = b
      BY <1>3, <2>1, <3>2, AppendProperties
    <3>4. <<a, b>> \in Seq(T) /\ Len(<<a, b>>) = 2 /\ <<a, b>>[1] = a /\ <<a, b>>[2] = b
      BY <1>3
    <3>5. v = <<a, b>>
      BY <3>3, <3>4, SeqEqual
    <3> QED BY <3>1, <3>2, <3>5
  <2> QED BY <2>1, <2>2, <2>3
<1>7. (s \o <<a>>) \o <<b>> = s \o (<<a>> \o <<b>>)
  BY <1>3, <1>6, ConcatAssociative
<1> QED BY <1>4, <1>5, <1>6, <1>7

LEMMA Dispatched ==
  ASSUME NEW c \in Nat, Taken(c), StreamInv, NEW e, Takes(e), NoEnd(sent'),
         BlocksFact(tool_inputs', reply, c + 1), ReasonFact(stop_reason', reply, c + 1),
         UsageFact(usage', reply, c + 1), SentFact(sent', reply, c + 1)
  PROVE  StreamInv'
<1>1. /\ Holds(buf', reply, style, c + 1) /\ Arrived(delivered, buf', style, c + 1)
      /\ UNCHANGED <<reply, style, delivered, pump>>
  BY TakesIs DEF StreamInv
<1>2. Taken(c + 1)'
  BY <1>1 DEF Taken
<1>3. GoodEnd(sent', stop_reason', usage')
  BY NoGoodEnd
<1>4. c + 1 \in Nat
  OBVIOUS
<1> QED BY <1>1, <1>2, <1>3, <1>4 DEF StreamInv

LEMMA DispatchKeeps == ASSUME StreamInv, Dispatch PROVE StreamInv'
<1>1. PICK c \in Nat : Taken(c)
  BY DEF StreamInv
<1>2. PICK e : \/ MessageStart(e) \/ BlockStart(e) \/ TextDelta(e) \/ InputJsonDelta(e)
               \/ BlockStop(e) \/ MessageDelta(e) \/ ErrorEvent(e) \/ Ignored(e)
  BY DEF Dispatch
<1>3. Takes(e)
  BY <1>2 DEF MessageStart, BlockStart, TextDelta, InputJsonDelta, BlockStop, MessageDelta, ErrorEvent, Ignored
<1>4. IsReply(reply) /\ c < Len(reply) /\ e = reply[c + 1] /\ pump # "closed"
  BY <1>1, <1>3, TakesIs DEF StreamInv
<1>5. NoEnd(sent) /\ IsSeq(sent)
  BY <1>1, <1>4 DEF StreamInv, Taken, SentFact
<1>6. /\ BlocksFact(tool_inputs, reply, c) /\ ReasonFact(stop_reason, reply, c) /\ UsageFact(usage, reply, c)
      /\ SentFact(sent, reply, c)
  BY <1>1 DEF Taken
<1>7. e.type # "text_delta" => InOrder(Texts(reply), c + 1) = InOrder(Texts(reply), c)
  BY <1>4, TextsNext
<1>8. e.type # "content_block_stop" => InOrder(Calls(reply), c + 1) = InOrder(Calls(reply), c)
  BY <1>4, OtherCalls
<1>9. e.type # "message_delta" => ReasonFact(stop_reason, reply, c + 1)
  BY <1>4, <1>6, ReasonNext
<1>10. e.type \notin {"message_start", "message_delta"} => UsageFact(usage, reply, c + 1)
  BY <1>4, <1>6, UsageNext
<1>11. e.type \notin {"content_block_start", "content_block_stop", "input_json_delta"} =>
         BlocksFact(tool_inputs, reply, c + 1)
  BY <1>4, <1>6, BlocksOther
<1>12. e.type \notin {"text_delta", "content_block_stop"} => SentFact(sent, reply, c + 1)
  BY <1>6, <1>7, <1>8, SentSame
<1>13. CASE MessageStart(e)
  <2>1. /\ e.type = "message_start" /\ usage' = [input |-> e.input, output |-> e.output]
        /\ UNCHANGED <<tool_inputs, stop_reason, sent>>
    BY <1>13 DEF MessageStart
  <2>2. UsageFact(usage', reply, c + 1)
    BY <1>4, <1>6, <2>1, UsageNext
  <2> QED BY <1>1, <1>3, <1>5, <1>9, <1>11, <1>12, <2>1, <2>2, Dispatched
<1>14. CASE BlockStart(e)
  <2>1. /\ e.type = "content_block_start" /\ UNCHANGED <<stop_reason, usage, sent>>
        /\ tool_inputs' = IF e.block = "tool_use"
                          THEN [i \in DOMAIN tool_inputs \cup {e.index} |->
                                  IF i = e.index THEN [id |-> e.id, json |-> <<>>] ELSE tool_inputs[i]]
                          ELSE tool_inputs
    BY <1>14 DEF BlockStart
  <2>2. BlocksFact(tool_inputs', reply, c + 1)
    BY <1>4, <1>6, <2>1, BlocksStart
  <2> QED BY <1>1, <1>3, <1>5, <1>9, <1>10, <1>12, <2>1, <2>2, Dispatched
<1>15. CASE TextDelta(e)
  <2>1. e.type = "text_delta" /\ sent' = Append(sent, Text(e.text)) /\ UNCHANGED <<tool_inputs, stop_reason, usage>>
    BY <1>15 DEF TextDelta, statevars
  <2>2. PICK t : t = Text(e.text)
    OBVIOUS
  <2>3. t.type = "Text" /\ ~IsStop(t) /\ t # Stop(Error) /\ sent' = Append(sent, t)
    BY <2>1, <2>2 DEF Text, Stop, IsStop
  <2>4. InOrder(Texts(reply), c + 1) = Append(InOrder(Texts(reply), c), t)
    BY <1>4, <2>1, <2>2, TextsNext
  <2>5. SentFact(sent', reply, c + 1)
    <3>1. c + 1 \in Nat /\ c <= c + 1 /\ t.type # "ToolCall"
      BY <2>3
    <3>2. InOrder(Calls(reply), c + 1) = InOrder(Calls(reply), c)
      BY <1>8, <2>1
    <3> QED BY <1>6, <2>3, <2>4, <3>1, <3>2, SentGrows
  <2>6. NoEnd(sent')
    BY <1>5, <2>3, NoEndGrows
  <2> QED BY <1>1, <1>3, <1>9, <1>10, <1>11, <2>1, <2>5, <2>6, Dispatched
<1>16. CASE InputJsonDelta(e)
  <2>1. /\ e.type = "input_json_delta" /\ UNCHANGED <<stop_reason, usage, sent>>
        /\ tool_inputs' = IF e.index \in DOMAIN tool_inputs
                          THEN [tool_inputs EXCEPT ![e.index] = [id |-> @.id, json |-> Append(@.json, e.part)]]
                          ELSE tool_inputs
    BY <1>16 DEF InputJsonDelta
  <2>2. BlocksFact(tool_inputs', reply, c + 1)
    BY <1>4, <1>6, <2>1, BlocksInput
  <2> QED BY <1>1, <1>3, <1>5, <1>9, <1>10, <1>12, <2>1, <2>2, Dispatched
<1>17. CASE BlockStop(e)
  <2>1. e.type = "content_block_stop" /\ UNCHANGED <<stop_reason, usage>>
    BY <1>17 DEF BlockStop
  <2>2. CASE e.index \notin DOMAIN tool_inputs
    <3>1. UNCHANGED <<tool_inputs, sent>>
      BY <1>17, <2>2 DEF BlockStop
    <3>2. BlocksFact(tool_inputs', reply, c + 1)
      BY <1>4, <1>6, <2>1, <2>2, <3>1, BlocksStop
    <3>3. InOrder(Calls(reply), c + 1) = InOrder(Calls(reply), c)
      BY <1>4, <1>6, <2>1, <2>2, EndsCall
    <3>4. SentFact(sent', reply, c + 1)
      BY <1>6, <1>7, <2>1, <3>1, <3>3, SentSame
    <3> QED BY <1>1, <1>3, <1>5, <1>9, <1>10, <2>1, <3>1, <3>2, <3>4, Dispatched
  <2>3. CASE e.index \in DOMAIN tool_inputs
    <3>1. PICK b : b = tool_inputs[e.index]
      OBVIOUS
    <3>2. /\ tool_inputs' = [i \in DOMAIN tool_inputs \ {e.index} |-> tool_inputs[i]]
          /\ sent' = sent \o IF Parses(b.json) THEN <<ToolCall(b.id, b.json), ToolResultRequested>>
                                               ELSE <<Stop(Error)>>
      BY <1>17, <2>3, <3>1 DEF BlockStop
    <3>3. BlocksFact(tool_inputs', reply, c + 1)
      BY <1>4, <1>6, <2>1, <2>3, <3>2, BlocksStop
    <3>4. InOrder(Texts(reply), c + 1) = InOrder(Texts(reply), c) /\ c + 1 \in Nat /\ c <= c + 1 /\ c + 1 <= c + 1
      BY <1>7, <2>1
    <3>5. InOrder(Calls(reply), c + 1) = Append(InOrder(Calls(reply), c), ToolCall(b.id, b.json))
      BY <1>4, <1>6, <2>1, <2>3, <3>1, EndsCall
    <3>6. CASE Parses(b.json)
      <4>1. PICK call : call = ToolCall(b.id, b.json)
        OBVIOUS
      <4>2. PICK req : req = ToolResultRequested
        OBVIOUS
      <4>3. PICK t : t = Append(sent, call)
        OBVIOUS
      <4>4. /\ call.type = "ToolCall" /\ call # Stop(Error) /\ ~IsStop(call)
            /\ req.type = "ToolResultRequested" /\ req # Stop(Error) /\ ~IsStop(req)
        BY <4>1, <4>2 DEF ToolCall, ToolResultRequested, Stop, IsStop
      <4>5. sent' = Append(t, req)
        BY <1>5, <3>2, <3>6, <4>1, <4>2, <4>3, Twice
      <4>6. SentFact(t, reply, c + 1)
        <5>1. call.type # "Text"
          BY <4>4
        <5>2. InOrder(Calls(reply), c + 1) = Append(InOrder(Calls(reply), c), call)
          BY <3>5, <4>1
        <5> QED BY <1>6, <3>4, <4>3, <4>4, <5>1, <5>2, SentGrows
      <4>7. SentFact(sent', reply, c + 1)
        <5>1. req.type # "Text" /\ req.type # "ToolCall"
          BY <4>4
        <5> QED BY <3>4, <4>5, <4>6, <5>1, SentGrows
      <4>8. NoEnd(t) /\ IsSeq(t)
        <5>1. call.type # "Usage"
          BY <4>4
        <5> QED BY <1>5, <4>3, <4>4, <4>6, <5>1, NoEndGrows DEF SentFact
      <4>9. NoEnd(sent')
        <5>1. req.type # "Usage"
          BY <4>4
        <5> QED BY <4>4, <4>5, <4>8, <5>1, NoEndGrows
      <4> QED BY <1>1, <1>3, <1>9, <1>10, <2>1, <3>3, <4>7, <4>9, Dispatched
    <3>7. CASE ~Parses(b.json)
      <4>1. PICK stop : stop = Stop(Error)
        OBVIOUS
      <4>2. stop.type # "Text" /\ stop.type # "ToolCall" /\ stop.type # "Usage"
        BY <4>1 DEF Stop
      <4>3. sent' = Append(sent, stop)
        BY <1>5, <3>2, <3>7, <4>1, Appended
      <4>4. SentFact(sent', reply, c + 1)
        BY <1>6, <3>4, <4>1, <4>2, <4>3, SentGrows
      <4>5. NoEnd(sent')
        BY <1>5, <4>1, <4>2, <4>3, NoEndGrows
      <4> QED BY <1>1, <1>3, <1>9, <1>10, <2>1, <3>3, <4>4, <4>5, Dispatched
    <3> QED BY <3>6, <3>7
  <2> QED BY <2>2, <2>3
<1>18. CASE MessageDelta(e)
  <2>1. /\ e.type = "message_delta" /\ usage' = [usage EXCEPT !.output = e.output]
        /\ stop_reason' = IF e.reason = NoReason THEN stop_reason
                          ELSE IF e.reason \in StopReasons THEN e.reason ELSE Error
        /\ UNCHANGED <<tool_inputs, sent>>
    BY <1>18 DEF MessageDelta
  <2>2. UsageFact(usage', reply, c + 1)
    BY <1>4, <1>6, <2>1, UsageNext
  <2>3. ReasonFact(stop_reason', reply, c + 1)
    BY <1>4, <1>6, <2>1, ReasonNext
  <2> QED BY <1>1, <1>3, <1>5, <1>11, <1>12, <2>1, <2>2, <2>3, Dispatched
<1>19. CASE ErrorEvent(e)
  <2>1. e.type = "error" /\ sent' = Append(sent, Stop(Error)) /\ UNCHANGED <<tool_inputs, stop_reason, usage>>
    BY <1>19 DEF ErrorEvent, statevars
  <2>2. PICK stop : stop = Stop(Error)
    OBVIOUS
  <2>3. stop.type # "Text" /\ stop.type # "ToolCall" /\ stop.type # "Usage" /\ sent' = Append(sent, stop)
    BY <2>1, <2>2 DEF Stop
  <2>4. SentFact(sent', reply, c + 1)
    <3>1. InOrder(Texts(reply), c + 1) = InOrder(Texts(reply), c) /\ c + 1 \in Nat /\ c <= c + 1
      BY <1>7, <2>1
    <3> QED BY <1>6, <2>2, <2>3, <3>1, SentGrows
  <2>5. NoEnd(sent')
    BY <1>5, <2>2, <2>3, NoEndGrows
  <2> QED BY <1>1, <1>3, <1>9, <1>10, <1>11, <2>1, <2>4, <2>5, Dispatched
<1>20. CASE Ignored(e)
  <2>1. e.type \in {"ping", "message_stop", "skipped"} /\ UNCHANGED <<tool_inputs, stop_reason, usage, sent>>
    BY <1>20 DEF Ignored, statevars
  <2> QED BY <1>1, <1>3, <1>5, <1>9, <1>10, <1>11, <1>12, <2>1, Dispatched
<1> QED BY <1>2, <1>13, <1>14, <1>15, <1>16, <1>17, <1>18, <1>19, <1>20

\* Nothing has come, been taken or been sent.
LEMMA NothingYet ==
  ASSUME NEW r \in Replies \cup {<<>>}, NEW s \in {"LF", "CRLF"}
  PROVE  /\ Holds(<<>>, r, s, 0) /\ Arrived(0, <<>>, s, 0)
         /\ BlocksFact(<<>>, r, 0) /\ ReasonFact(NoReason, r, 0) /\ UsageFact(NoUsage, r, 0)
         /\ SentFact(<<>>, r, 0) /\ NoEnd(<<>>) /\ GoodEnd(<<>>, NoReason, NoUsage)
<1>2. Len(r) \in Nat /\ DOMAIN r = 1..Len(r)
  <2>1. CASE r = <<>>
    BY <2>1
  <2>2. CASE r \in Replies
    <3>1. IsReply(r)
      BY <2>2, StreamAssumption
    <3> QED BY <3>1, ReplyIs
  <2> QED BY <2>1, <2>2
<1>3. IsSeq(<<>>) /\ Len(<<>>) = 0 /\ DOMAIN <<>> = {}
  <2>1. IsSeq(<<>>)
    BY Short
  <2>2. Len(<<>>) = 0
    OBVIOUS
  <2>3. DOMAIN <<>> = {}
    OBVIOUS
  <2> QED BY <2>1, <2>2, <2>3
<1>4. Width(s) \in Nat /\ Width(s) * 0 = 0 /\ Width(s) * Len(r) \in Nat
  BY <1>2 DEF Width
<1>5. Holds(<<>>, r, s, 0) /\ Arrived(0, <<>>, s, 0)
  BY <1>2, <1>3, <1>4 DEF Holds, Arrived
<1>6. \A T, i : i \in At(r, T) => ~(i <= 0)
  BY <1>2 DEF At
<1>7. Live(r, 0) = {}
  BY <1>6 DEF Live, IsOpen
<1>8. BlocksFact(<<>>, r, 0)
  BY <1>3, <1>7 DEF BlocksFact
<1>9. ReasonFact(NoReason, r, 0)
  BY <1>6 DEF ReasonFact, Deltas
<1>10. UsageFact(NoUsage, r, 0)
  BY <1>6 DEF UsageFact, Deltas
<1>11. SentFact(<<>>, r, 0)
  <2>1. \A f, g : InOrder(f, 0) = InOrder(g, 0)
    BY InOrderZero
  <2>2. 0 \in 0..0 /\ \A n \in 0..0 : n = 0
    OBVIOUS
  <2> QED BY <1>3, <2>1, <2>2 DEF SentFact
<1>12. NoEnd(<<>>)
  BY <1>3 DEF NoEnd
<1>13. GoodEnd(<<>>, NoReason, NoUsage)
  BY <1>12, NoGoodEnd
<1> QED BY <1>5, <1>8, <1>9, <1>10, <1>11, <1>12, <1>13

\* A connection that has just been made, or none.
LEMMA FreshStream ==
  ASSUME NEW r \in Replies \cup {<<>>}, NEW s \in {"LF", "CRLF"}, NEW to \in {"none", "read"}, Connects(to, r, s)
  PROVE  StreamInv'
<1>1. /\ reply' = r /\ style' = s /\ delivered' = 0 /\ pump' = to
      /\ buf' = <<>> /\ tool_inputs' = <<>> /\ stop_reason' = NoReason /\ usage' = NoUsage /\ sent' = <<>>
  BY DEF Connects
<1>2. Taken(0)' /\ NoEnd(sent') /\ GoodEnd(sent', stop_reason', usage') /\ 0 \in Nat
  BY <1>1, NothingYet DEF Taken
<1> QED BY <1>1, <1>2 DEF StreamInv

LEMMA ChunkKeeps == ASSUME StreamInv, NEW n \in Nat, Chunk(n) PROVE StreamInv'
<1>1. PICK c \in Nat : Taken(c)
  BY DEF StreamInv
<1>2. /\ pump = "read" /\ pump' = "drain" /\ delivered' = delivered + n
      /\ delivered + n <= Len(Body(reply, style))
      /\ buf' = buf \o SubSeq(Body(reply, style), delivered + 1, delivered + n)
      /\ UNCHANGED <<reply, style, tool_inputs, stop_reason, usage, sent>>
  BY DEF Chunk, statevars
<1>3. Holds(buf, reply, style, c) /\ Arrived(delivered, buf, style, c)
  BY <1>1 DEF Taken
<1>4. delivered \in Nat
  BY <1>3 DEF Holds, Arrived, Width
<1>5. /\ Holds(buf \o SubSeq(Body(reply, style), delivered + 1, delivered + n), reply, style, c)
      /\ Arrived(delivered + n, buf \o SubSeq(Body(reply, style), delivered + 1, delivered + n), style, c)
  BY <1>2, <1>3, <1>4, HoldsMore
<1>6. Taken(c)'
  BY <1>1, <1>2, <1>5 DEF Taken
<1> QED BY <1>1, <1>2, <1>6 DEF StreamInv

\* The Stop that ends a stream adds no text and no call.
LEMMA StopGrows ==
  ASSUME NEW s, NEW r, NEW c \in Nat, SentFact(s, r, c), NEW e, e.type \in {"Stop", "Usage"}
  PROVE  SentFact(Append(s, e), r, c)
<1>1. e.type # "Text" /\ e.type # "ToolCall" /\ c <= c
  OBVIOUS
<1> QED BY <1>1, SentGrows

LEMMA FinishesKeeps == ASSUME StreamInv, Finishes PROVE StreamInv'
<1>1. PICK c \in Nat : Taken(c)
  BY DEF StreamInv
<1>2. PICK stop : stop = Stop(IF stop_reason = NoReason THEN Error ELSE stop_reason)
  OBVIOUS
<1>3. PICK v : v = IF usage = NoUsage THEN sent ELSE Append(sent, Usage(usage))
  OBVIOUS
<1>4. /\ pump = "flush" /\ pump' = "closed"
      /\ UNCHANGED <<reply, style, delivered, buf, tool_inputs, stop_reason, usage>>
      /\ sent' = (sent \o (IF usage = NoUsage THEN <<>> ELSE <<Usage(usage)>>)) \o <<stop>>
  BY <1>2 DEF Finishes, statevars, netvars
<1>5. SentFact(sent, reply, c) /\ IsSeq(sent) /\ NoEnd(sent)
  BY <1>1, <1>4 DEF StreamInv, Taken, SentFact
<1>6. sent \o (IF usage = NoUsage THEN <<>> ELSE <<Usage(usage)>>) = v
  <2>1. CASE usage = NoUsage
    <3>1. PICK S : sent \in Seq(S)
      BY <1>5 DEF IsSeq
    <3>2. sent \o <<>> = sent
      BY <3>1, ConcatEmptySeq
    <3> QED BY <1>3, <2>1, <3>2
  <2>2. CASE usage # NoUsage
    BY <1>3, <1>5, <2>2, Appended
  <2> QED BY <2>1, <2>2
<1>7. SentFact(v, reply, c) /\ IsSeq(v)
  <2>1. Usage(usage).type \in {"Stop", "Usage"}
    BY DEF Usage
  <2> QED BY <1>3, <1>5, <2>1, StopGrows DEF SentFact
<1>8. sent' = Append(v, stop)
  BY <1>4, <1>6, <1>7, Appended
<1>9. SentFact(sent', reply, c)
  <2>1. stop.type \in {"Stop", "Usage"}
    BY <1>2 DEF Stop
  <2> QED BY <1>7, <1>8, <2>1, StopGrows
<1>10. GoodEnd(sent', stop_reason, usage)
  BY <1>2, <1>3, <1>5, <1>8, EndsWell
<1>11. Taken(c)'
  BY <1>1, <1>4, <1>9 DEF Taken
<1> QED BY <1>1, <1>4, <1>10, <1>11 DEF StreamInv

LEMMA StreamKeeps == ASSUME StreamInv, Pump PROVE StreamInv'
<1>1. PICK c \in Nat : Taken(c)
  BY DEF StreamInv
<1>2. ASSUME NEW n \in 1..Len(Body(reply, style)), Chunk(n) PROVE StreamInv'
  <2>1. n \in Nat
    OBVIOUS
  <2> QED BY <1>2, <2>1, ChunkKeeps
<1>3. CASE EndOfBody \/ Drained
  <2>1. /\ UNCHANGED <<reply, style, delivered, buf, tool_inputs, stop_reason, usage, sent>>
        /\ pump' \in {"flush", "read"} /\ pump # "closed"
    BY <1>3 DEF EndOfBody, Drained, netvars, statevars
  <2>2. Taken(c)'
    BY <1>1, <2>1 DEF Taken
  <2> QED BY <1>1, <2>1, <2>2 DEF StreamInv
<1>4. CASE ByteError
  <2>1. /\ UNCHANGED <<reply, style, delivered, buf, tool_inputs, stop_reason, usage>>
        /\ sent' = Append(sent, Stop(Error)) /\ pump' = "closed" /\ pump # "closed"
    BY <1>4 DEF ByteError, netvars, statevars
  <2>2. SentFact(sent, reply, c) /\ IsSeq(sent) /\ NoEnd(sent)
    BY <1>1, <2>1 DEF StreamInv, Taken, SentFact
  <2>3. Stop(Error).type = "Stop" /\ Stop(Error).type # "Usage"
    BY DEF Stop
  <2>4. SentFact(sent', reply, c)
    BY <2>1, <2>2, <2>3, StopGrows
  <2>5. NoEnd(sent')
    BY <2>1, <2>2, <2>3, NoEndGrows
  <2>6. Taken(c)'
    BY <1>1, <2>1, <2>4 DEF Taken
  <2>7. GoodEnd(sent', stop_reason', usage')
    BY <2>5, NoGoodEnd
  <2> QED BY <1>1, <2>1, <2>5, <2>6, <2>7 DEF StreamInv
<1> QED BY <1>2, <1>3, <1>4, DispatchKeeps, FinishesKeeps DEF Pump

---------------------------------------------------------------------------
(* The reader                                                              *)

\* A reader has seen at most one Stop, the last event it took, and it ends
\* well only on one that is no error.
ReaderInv ==
  /\ ChannelInv
  /\ \A i \in 1..(read - 1) : ~IsStop(sent[i])
  /\ result \in {"complete", "unparsed"} =>
       at = "done" /\ read > 0 /\ IsStop(sent[read]) /\ sent[read] # Stop(Error)

\* What the pump adds comes after what has been read.
LEMMA ReaderKeeps == ASSUME ReaderInv, Pump PROVE ReaderInv'
<1>1. ChannelInv'
  BY PumpKeeps DEF ReaderInv
<1>2. UNCHANGED <<at, read, result>> /\ at = "reading"
  <2>1. UNCHANGED <<at, read>> /\ at = "reading"
    BY PumpAdds DEF ReaderInv, Pump
  <2>2. result' = result
    BY DEF Pump, Chunk, EndOfBody, ByteError, Dispatch, Drained, Finishes, readervars, MessageStart, BlockStart,
           TextDelta, InputJsonDelta, BlockStop, MessageDelta, ErrorEvent, Ignored, Takes
  <2> QED BY <2>1, <2>2
<1>3. PICK u : IsSeq(u) /\ sent' = sent \o u
  BY PumpAdds DEF ReaderInv
<1>4. Len(sent) \in Nat /\ \A i \in 1..Len(sent) : sent'[i] = sent[i]
  BY <1>3, Joined DEF ReaderInv, ChannelInv
<1>5. \A i \in 1..(read' - 1) : ~IsStop(sent'[i])
  BY <1>2, <1>4 DEF ReaderInv, ChannelInv
<1> QED BY <1>1, <1>2, <1>5 DEF ReaderInv

LEMMA ReaderReads == ASSUME ReaderInv, Reads PROVE ReaderInv'
<1>1. ChannelInv' /\ ChannelInv
  BY ReadsKeeps DEF ReaderInv
<1>2. read < Len(sent) /\ at = "reading" /\ read \in Nat /\ Len(sent) \in Nat
  <2>1. read < Len(sent) /\ at = "reading"
    BY <1>1, Waits DEF Reads, NeverEndsSilently
  <2>2. PICK S : sent \in Seq(S)
    BY <1>1 DEF ChannelInv, IsSeq
  <2> QED BY <1>1, <2>1, <2>2, LenProperties DEF ChannelInv
<1>3. result \notin {"complete", "unparsed"}
  BY <1>2 DEF ReaderInv
<1> DEFINE e == sent[read + 1]
<1>4. IF e.type = "Stop" THEN StopsOn(e.reason) ELSE UNCHANGED <<at, attempt, waited, result>>
  BY <1>2 DEF Reads
<1>5. CASE at' = "backoff"
  <2>1. sent' = <<>> /\ read' = 0
    BY <1>5 DEF Reads, Connects
  <2>2. result' = result
    BY <1>2, <1>4, <1>5 DEF StopsOn, Transient, Ends
  <2> QED BY <1>1, <1>3, <2>1, <2>2 DEF ReaderInv
<1>6. CASE at' # "backoff"
  <2>1. read' = Min({read + 1, Len(sent)}) /\ UNCHANGED sent
    BY <1>6 DEF Reads
  <2>2. read + 1 \in Nat /\ read + 1 <= Len(sent)
    BY <1>2
  <2>3. read' = read + 1
    BY <1>2, <2>1, <2>2, MinOfTwo
  <2>4. \A i \in 1..(read' - 1) : ~IsStop(sent'[i])
    BY <1>1, <1>2, <2>1, <2>3 DEF ChannelInv
  <2>5. ASSUME result' \in {"complete", "unparsed"}
        PROVE  at' = "done" /\ read' > 0 /\ IsStop(sent'[read']) /\ sent'[read'] # Stop(Error)
    <3>1. e.type = "Stop" /\ StopsOn(e.reason)
      BY <1>3, <1>4, <2>5
    <3>2. e.reason # Error /\ at' = "done"
      BY <1>3, <2>5, <3>1 DEF StopsOn, Transient, Ends
    <3>3. e # Stop(Error)
      BY <3>2 DEF Stop
    <3> QED BY <1>2, <2>1, <2>3, <3>1, <3>2, <3>3 DEF IsStop
  <2> QED BY <1>1, <2>4, <2>5 DEF ReaderInv
<1> QED BY <1>5, <1>6

---------------------------------------------------------------------------
(* The retry policy                                                        *)

RetryInv ==
  /\ kind \in Kinds /\ at \in {"opening", "reading", "backoff", "done"}
  /\ attempt \in 0..(MaxAttempts - 1)
  /\ waited \in 0..(attempt * MaxDelay)
  /\ at = "backoff" => attempt > 0 /\ waited <= (attempt - 1) * MaxDelay
  /\ result \in {"none", "complete", "broken", "refused", "unparsed"}
  /\ style \in {"LF", "CRLF"}

\* What a reader's Stop or a refusal does to the attempts.
LEMMA TransientKeeps ==
  ASSUME RetryInv, UNCHANGED kind, NEW how \in {"complete", "broken", "refused", "unparsed"},
         Transient(how) \/ Ends(how), style' \in {"LF", "CRLF"}, at # "backoff"
  PROVE  RetryInv'
<1>0. MaxAttempts \in Nat \ {0} /\ MaxDelay \in Nat
  BY StreamAssumption
<1>1. attempt \in Nat /\ (attempt + 1) * MaxDelay = attempt * MaxDelay + MaxDelay /\ attempt * MaxDelay \in Nat
  BY <1>0 DEF RetryInv
<1>2. CASE Ends(how)
  BY <1>2 DEF Ends, RetryInv
<1>3. CASE attempt + 1 < MaxAttempts /\ Transient(how)
  <2>1. at' = "backoff" /\ attempt' = attempt + 1 /\ UNCHANGED <<waited, result>>
    BY <1>3 DEF Transient
  <2>2. attempt' \in 0..(MaxAttempts - 1) /\ attempt' > 0 /\ attempt' - 1 = attempt
    BY <1>0, <1>1, <1>3, <2>1
  <2>3. waited' \in 0..(attempt' * MaxDelay)
    BY <1>0, <1>1, <2>1 DEF RetryInv
  <2>4. waited' <= (attempt' - 1) * MaxDelay
    BY <2>1, <2>2 DEF RetryInv
  <2> QED BY <2>1, <2>2, <2>3, <2>4 DEF RetryInv
<1> QED BY <1>2, <1>3 DEF Transient

LEMMA BackoffKeeps == ASSUME RetryInv, BackoffOver PROVE RetryInv'
<1>0. MaxDelay \in Nat
  BY StreamAssumption
<1>1. /\ at = "backoff" /\ at' = "opening" /\ waited' = waited + DelayFor(attempt)
      /\ UNCHANGED <<kind, attempt, result, style>>
  BY DEF BackoffOver, netvars
<1>2. attempt \in Nat /\ attempt > 0 /\ attempt - 1 \in Nat /\ waited \in Nat /\ waited <= (attempt - 1) * MaxDelay
  <2>1. attempt * MaxDelay \in Int
    BY <1>0 DEF RetryInv
  <2> QED BY <1>1, <2>1 DEF RetryInv
<1>3. PICK d : d = DelayFor(attempt)
  OBVIOUS
<1>4. d \in Nat /\ d <= MaxDelay
  BY <1>0, <1>2, <1>3, DelayBound
<1>5. PICK k \in Nat : attempt = k + 1
  BY <1>2
<1>6. attempt * MaxDelay = k * MaxDelay + MaxDelay /\ k * MaxDelay \in Nat /\ attempt - 1 = k
  BY <1>0, <1>5
<1>7. waited' \in 0..(attempt' * MaxDelay)
  BY <1>0, <1>1, <1>2, <1>3, <1>4, <1>6
<1> QED BY <1>1, <1>7 DEF RetryInv

---------------------------------------------------------------------------
StreamInvariant == StreamInv /\ ReaderInv /\ RetryInv

LEMMA StreamInit == Init => StreamInvariant
<1> SUFFICES ASSUME Init PROVE StreamInvariant
  OBVIOUS
<1>1. /\ reply = <<>> /\ style = "LF" /\ delivered = 0 /\ pump = "none" /\ buf = <<>> /\ tool_inputs = <<>>
      /\ stop_reason = NoReason /\ usage = NoUsage /\ sent = <<>> /\ read = 0
      /\ kind \in Kinds /\ at = "opening" /\ attempt = 0 /\ waited = 0 /\ result = "none"
  BY DEF Init, NoConnection
<1>2. Taken(0) /\ NoEnd(sent) /\ GoodEnd(sent, stop_reason, usage) /\ 0 \in Nat
  BY <1>1, NothingYet DEF Taken
<1>3. StreamInv
  BY <1>1, <1>2 DEF StreamInv
<1>4. ReaderInv
  BY <1>1, ChannelInit DEF ReaderInv
<1>5. RetryInv
  <2>1. MaxAttempts \in Nat \ {0} /\ MaxDelay \in Nat /\ 0 * MaxDelay = 0
    BY StreamAssumption
  <2>2. attempt \in 0..(MaxAttempts - 1) /\ waited \in 0..(attempt * MaxDelay)
    BY <1>1, <2>1
  <2> QED BY <1>1, <2>2 DEF RetryInv
<1> QED BY <1>3, <1>4, <1>5 DEF StreamInvariant

LEMMA PumpLeaves ==
  ASSUME Pump PROVE UNCHANGED <<kind, at, attempt, waited, result, style>>
BY DEF Pump, Chunk, EndOfBody, ByteError, Dispatch, Drained, Finishes, readervars, netvars, MessageStart,
       BlockStart, TextDelta, InputJsonDelta, BlockStop, MessageDelta, ErrorEvent, Ignored, Takes

LEMMA StreamStep == StreamInvariant /\ [Next]_vars => StreamInvariant'
<1> SUFFICES ASSUME StreamInvariant, [Next]_vars PROVE StreamInvariant'
  OBVIOUS
<1>0. StreamInv /\ ReaderInv /\ RetryInv /\ ChannelInv
  BY DEF StreamInvariant, ReaderInv
<1>1. ChannelInv'
  BY <1>0, ChannelStep
<1>2. ASSUME NEW r \in Replies, NEW s \in {"LF", "CRLF"}, Opens(r, s) PROVE StreamInvariant'
  <2>1. /\ at = "opening" /\ at' = "reading" /\ Connects("read", r, s)
        /\ UNCHANGED <<kind, attempt, waited, result>>
    BY <1>2 DEF Opens
  <2>2. StreamInv'
    BY <2>1, FreshStream
  <2>3. read' = 0 /\ style' = s
    BY <2>1 DEF Connects
  <2>4. ReaderInv'
    BY <1>0, <1>1, <2>1, <2>3 DEF ReaderInv
  <2>5. RetryInv'
    BY <1>0, <2>1, <2>3 DEF RetryInv
  <2> QED BY <2>2, <2>4, <2>5 DEF StreamInvariant
<1>3. ASSUME NEW retryable \in BOOLEAN, Refused(retryable) PROVE StreamInvariant'
  <2>1. /\ at = "opening" /\ (Transient("refused") \/ Ends("refused"))
        /\ UNCHANGED <<kind, reply, style, delivered, pump, buf, tool_inputs, stop_reason, usage, sent, read>>
    BY <1>3 DEF Refused, netvars, statevars
  <2>2. StreamInv'
    BY <1>0, <2>1 DEF StreamInv, Taken
  <2>3. result' \notin {"complete", "unparsed"}
    BY <1>0, <2>1 DEF Transient, Ends, ReaderInv
  <2>4. ReaderInv'
    BY <1>0, <1>1, <2>1, <2>3 DEF ReaderInv
  <2>5. RetryInv'
    <3>1. style' \in {"LF", "CRLF"} /\ at # "backoff" /\ UNCHANGED kind
      BY <1>0, <2>1 DEF RetryInv
    <3> QED BY <1>0, <2>1, <3>1, TransientKeeps
  <2> QED BY <2>2, <2>4, <2>5 DEF StreamInvariant
<1>4. CASE BackoffOver
  <2>1. /\ at' = "opening" /\ at = "backoff"
        /\ UNCHANGED <<result, reply, style, delivered, pump, buf, tool_inputs, stop_reason, usage, sent, read>>
    BY <1>4 DEF BackoffOver, netvars, statevars
  <2>2. StreamInv'
    BY <1>0, <2>1 DEF StreamInv, Taken
  <2>3. ReaderInv'
    BY <1>0, <1>1, <2>1 DEF ReaderInv
  <2>4. RetryInv'
    BY <1>0, <1>4, BackoffKeeps
  <2> QED BY <2>2, <2>3, <2>4 DEF StreamInvariant
<1>5. CASE Pump
  <2>1. RetryInv'
    BY <1>0, <1>5, PumpLeaves DEF RetryInv
  <2> QED BY <1>0, <1>5, <2>1, StreamKeeps, ReaderKeeps DEF StreamInvariant
<1>6. CASE Reads
  <2>1. StreamInv'
    <3>1. CASE at' = "backoff"
      <4>1. Connects("none", <<>>, "LF")
        BY <1>6, <3>1 DEF Reads
      <4> QED BY <4>1, FreshStream
    <3>2. CASE at' # "backoff"
      <4>1. UNCHANGED <<reply, style, delivered, pump, buf, tool_inputs, stop_reason, usage, sent>>
        BY <1>6, <3>2 DEF Reads, netvars, statevars
      <4> QED BY <1>0, <4>1 DEF StreamInv, Taken
    <3> QED BY <3>1, <3>2
  <2>2. style' \in {"LF", "CRLF"} /\ UNCHANGED kind /\ at = "reading"
    BY <1>0, <1>6 DEF Reads, Connects, netvars, RetryInv
  <2>3. \/ \E how \in {"complete", "broken", "refused", "unparsed"} : Transient(how) \/ Ends(how)
        \/ UNCHANGED <<at, attempt, waited, result>>
    BY <1>6 DEF Reads, StopsOn
  <2>4. RetryInv'
    <3>1. CASE \E how \in {"complete", "broken", "refused", "unparsed"} : Transient(how) \/ Ends(how)
      BY <1>0, <2>2, <3>1, TransientKeeps
    <3>2. CASE UNCHANGED <<at, attempt, waited, result>>
      BY <1>0, <2>2, <3>2 DEF RetryInv
    <3> QED BY <2>3, <3>1, <3>2
  <2> QED BY <1>0, <1>6, <2>1, <2>4, ReaderReads DEF StreamInvariant
<1>7. CASE UNCHANGED vars
  <2>1. UNCHANGED <<kind, at, attempt, waited, result, reply, style, delivered, pump, buf, tool_inputs, stop_reason,
                    usage, sent, read>>
    BY <1>7 DEF vars, readervars, netvars, statevars
  <2> QED BY <1>0, <1>1, <2>1 DEF StreamInvariant, StreamInv, Taken, ReaderInv, RetryInv
<1> QED BY <1>2, <1>3, <1>4, <1>5, <1>6, <1>7 DEF Next

---------------------------------------------------------------------------
LEMMA TypesHold == StreamInvariant => TypeOK
<1> SUFFICES ASSUME StreamInvariant PROVE TypeOK
  OBVIOUS
<1>1. StreamInv /\ ReaderInv /\ RetryInv /\ ChannelInv
  BY DEF StreamInvariant, ReaderInv
<1>2. PICK c \in Nat : Taken(c)
  BY <1>1 DEF StreamInv
<1>3. delivered \in 0..Len(Body(reply, style))
  <2>1. Len(Body(reply, style)) = Width(style) * Len(reply)
    BY <1>2, BodyLen DEF Taken, Holds
  <2>2. PICK w : w = Width(style) * c
    OBVIOUS
  <2>3. PICK x : x = Width(style) * Len(reply)
    OBVIOUS
  <2>4. /\ w \in Nat /\ x \in Nat /\ Len(buf) \in Nat /\ delivered = w + Len(buf) /\ w + Len(buf) <= x
    BY <1>2, <2>2, <2>3 DEF Taken, Holds, Arrived, Width
  <2> QED BY <2>1, <2>3, <2>4
<1>4. DOMAIN tool_inputs \subseteq Indices
  <2>1. DOMAIN tool_inputs = Live(reply, c)
    BY <1>2 DEF Taken, BlocksFact
  <2>2. ASSUME NEW x \in Live(reply, c) PROVE x \in Indices
    <3>1. PICK j \in At(reply, {"content_block_start"}) : x = reply[j].index
      BY <2>2 DEF Live, StartTypes
    <3>2. reply \in Replies
      <4>1. reply \in Replies \cup {<<>>} /\ j \in DOMAIN reply
        BY <1>1, <3>1 DEF StreamInv, At
      <4>2. j \in 1..Len(reply) /\ Len(reply) \in Nat
        BY <4>1, Typed
      <4> QED BY <4>1, <4>2, Typed
    <3> QED BY <3>1, <3>2 DEF Indices
  <2> QED BY <2>1, <2>2
<1>5. stop_reason \in StopReasons \cup {Error, NoReason}
  BY <1>2 DEF Taken, ReasonFact
<1>6. read \in 0..Len(sent)
  <2>1. Len(sent) \in Nat
    BY <1>1, Grown DEF ChannelInv
  <2> QED BY <1>1, <2>1 DEF ChannelInv
<1> QED BY <1>1, <1>3, <1>4, <1>5, <1>6 DEF TypeOK, StreamInv, RetryInv

---------------------------------------------------------------------------
(* What the reader has                                                     *)

LEMMA PrefixAt ==
  ASSUME NEW s, NEW t, IsSeq(s), IsSeq(t)
  PROVE  IsPrefix(s, t) <=> Len(s) <= Len(t) /\ \A i \in 1..Len(s) : s[i] = t[i]
<1>1. PICK S : s \in Seq(S)
  BY DEF IsSeq
<1>2. PICK T : t \in Seq(T)
  BY DEF IsSeq
<1>3. PICK V : V = S \cup T
  OBVIOUS
<1>4. s \in Seq(V) /\ t \in Seq(V)
  BY <1>1, <1>2, <1>3, SeqMonotonic
<1>5. Len(s) \in Nat /\ Len(t) \in Nat
  BY <1>4, LenProperties
<1> QED BY <1>4, <1>5 DEF IsPrefix

LEMMA PrefixTrans ==
  ASSUME NEW s, NEW t, NEW u, IsSeq(s), IsSeq(t), IsSeq(u), IsPrefix(s, t), IsPrefix(t, u)
  PROVE  IsPrefix(s, u)
<1>1. Len(s) \in Nat /\ Len(t) \in Nat /\ Len(u) \in Nat
  BY Grown
<1>2. Len(s) <= Len(t) /\ \A i \in 1..Len(s) : s[i] = t[i]
  BY PrefixAt
<1>3. Len(t) <= Len(u) /\ \A i \in 1..Len(t) : t[i] = u[i]
  BY PrefixAt
<1>4. Len(s) <= Len(u) /\ \A i \in 1..Len(s) : s[i] = u[i]
  BY <1>1, <1>2, <1>3
<1> QED BY <1>4, PrefixAt

LEMMA InOrderIsSeq == ASSUME NEW f, NEW n \in Nat PROVE IsSeq(InOrder(f, n))
<1>1. InOrder(f, n) \in Seq({f[k] : k \in DOMAIN f})
  <2>1. PICK V : V = {f[k] : k \in DOMAIN f}
    OBVIOUS
  <2>2. InOrder(f, n) \in Seq(V)
    BY <2>1, InOrderSeq
  <2> QED BY <2>1, <2>2
<1> QED BY <1>1 DEF IsSeq

\* t is the first n events of s.
IsStartOf(t, s, n) ==
  /\ Len(t) = n /\ \A i \in 1..n : t[i] = s[i]
  /\ \A ty : InOrder(Only(t, ty), n) = InOrder(Only(s, ty), n)

LEMMA ReceivedIs ==
  ASSUME NEW s, IsSeq(s), NEW n \in Nat, n <= Len(s), NEW t, t = SubSeq(s, 1, n)
  PROVE  IsStartOf(t, s, n)
<1>1. PICK S : s \in Seq(S)
  BY DEF IsSeq
<1>2. Len(s) \in Nat /\ DOMAIN s = 1..Len(s)
  BY <1>1, LenProperties
<1>3. DOMAIN t = 1..n /\ \A i \in 1..n : t[i] = s[i]
  BY FirstTokens
<1>4. t \in Seq(S)
  BY <1>1, <1>2, SubSeqProperties
<1>5. Len(t) = n
  BY <1>3, <1>4, LenProperties
<1>6. ASSUME NEW ty PROVE InOrder(Only(t, ty), n) = InOrder(Only(s, ty), n)
  <2>1. PICK f : f = Only(t, ty)
    OBVIOUS
  <2>2. PICK g : g = Only(s, ty)
    OBVIOUS
  <2>3. /\ DOMAIN f = {i \in 1..n : t[i].type = ty} /\ \A i \in DOMAIN f : f[i] = t[i]
        /\ DOMAIN g = {i \in 1..Len(s) : s[i].type = ty} /\ \A i \in DOMAIN g : g[i] = s[i]
    BY <1>2, <1>3, <2>1, <2>2 DEF Only, At
  <2>4. ASSUME NEW k \in 1..n
        PROVE (k \in DOMAIN f <=> k \in DOMAIN g) /\ (k \in DOMAIN f => f[k] = g[k])
    <3>1. k \in 1..Len(s) /\ t[k] = s[k]
      BY <1>2, <1>3
    <3> QED BY <2>3, <3>1
  <2>5. InOrder(f, n) = InOrder(g, n)
    BY <2>4, InOrderAgree
  <2> QED BY <2>1, <2>2, <2>5
<1> QED BY <1>3, <1>5, <1>6 DEF IsStartOf

LEMMA PrefixHolds == StreamInvariant => ReadsAPrefix
<1> SUFFICES ASSUME StreamInvariant PROVE ReadsAPrefix
  OBVIOUS
<1>1. PICK c \in Nat : Taken(c)
  BY DEF StreamInvariant, StreamInv
<1>2. IsSeq(sent) /\ read \in Nat /\ read <= Len(sent) /\ Len(sent) \in Nat
  BY Grown DEF StreamInvariant, ReaderInv, ChannelInv
<1>3. c <= Len(reply) /\ Len(reply) \in Nat /\ SentFact(sent, reply, c)
  BY <1>1 DEF Taken, Holds
<1>4. PICK t : t = Received
  OBVIOUS
<1>5. Len(t) = read /\ \A ty : InOrder(Only(t, ty), read) = InOrder(Only(sent, ty), read)
  <2>1. t = SubSeq(sent, 1, read)
    BY <1>4 DEF Received
  <2>2. IsStartOf(t, sent, read)
    BY <1>2, <2>1, ReceivedIs
  <2> QED BY <1>2, <2>2 DEF IsStartOf
<1>6. IsPrefix(TextOf(t), ReplyText(reply))
  <2>1. PICK f : f = Only(sent, "Text")
    OBVIOUS
  <2>2. PICK g : g = Texts(reply)
    OBVIOUS
  <2>3. IsPrefix(InOrder(f, read), InOrder(f, Len(sent)))
    BY <1>2, InOrderPrefix
  <2>4. InOrder(f, Len(sent)) = InOrder(g, c)
    BY <1>3, <2>1, <2>2 DEF SentFact
  <2>5. IsPrefix(InOrder(g, c), InOrder(g, Len(reply)))
    BY <1>3, InOrderPrefix
  <2>6. IsPrefix(InOrder(f, read), InOrder(g, Len(reply)))
    <3>1. IsSeq(InOrder(f, read)) /\ IsSeq(InOrder(g, c)) /\ IsSeq(InOrder(g, Len(reply)))
      BY <1>2, <1>3, InOrderIsSeq
    <3>2. IsPrefix(InOrder(f, read), InOrder(g, c))
      BY <2>3, <2>4
    <3> QED BY <2>5, <3>1, <3>2, PrefixTrans
  <2> QED BY <1>5, <2>1, <2>2, <2>6 DEF TextOf, ReplyText
<1>7. IsPrefix(CallsOf(t), ReplyCalls(reply))
  <2>1. PICK f : f = Only(sent, "ToolCall")
    OBVIOUS
  <2>2. PICK g : g = Calls(reply)
    OBVIOUS
  <2>3. \A n \in 0..Len(sent) : ErrorFree(sent, n) => \E m \in 0..c : InOrder(f, n) = InOrder(g, m)
    BY <1>3, <2>1, <2>2 DEF SentFact
  <2>4. \E m \in 0..c : InOrder(f, read) = InOrder(g, m)
    <3>1. \A i \in 1..(read - 1) : sent[i] # Stop(Error)
      BY DEF StreamInvariant, ReaderInv, IsStop, Stop
    <3>2. CASE read = 0 \/ sent[read] # Stop(Error)
      <4>1. ErrorFree(sent, read)
        BY <1>2, <3>1, <3>2 DEF ErrorFree
      <4> QED BY <1>2, <2>3, <4>1
    <3>3. CASE read > 0 /\ sent[read] = Stop(Error)
      <4>1. PICK n \in Nat : read = n + 1
        <5>1. read - 1 \in Nat /\ read = (read - 1) + 1
          BY <1>2, <3>3
        <5> QED BY <5>1
      <4>2. ErrorFree(sent, n) /\ n \in 0..Len(sent)
        BY <1>2, <3>1, <4>1 DEF ErrorFree
      <4>3. PICK m \in 0..c : InOrder(f, n) = InOrder(g, m)
        BY <2>3, <4>2
      <4>4. n + 1 \notin DOMAIN f
        BY <2>1, <3>3, <4>1 DEF Only, At, Stop
      <4>5. InOrder(f, n + 1) = InOrder(f, n)
        BY <4>4, InOrderNext
      <4> QED BY <4>1, <4>3, <4>5
    <3> QED BY <1>2, <3>2, <3>3
  <2>5. PICK m \in 0..c : InOrder(f, read) = InOrder(g, m)
    BY <2>4
  <2>6. m \in Nat /\ m <= Len(reply)
    BY <1>3
  <2>7. IsPrefix(InOrder(g, m), InOrder(g, Len(reply)))
    BY <1>3, <2>6, InOrderPrefix
  <2> QED BY <1>5, <2>1, <2>2, <2>5, <2>7 DEF CallsOf, ReplyCalls
<1> QED BY <1>4, <1>6, <1>7 DEF ReadsAPrefix

LEMMA MaxIs ==
  ASSUME NEW S \in SUBSET Nat, NEW m \in S, \A x \in S : x <= m
  PROVE  Max(S) = m
<1>1. \A x \in S : (\A y \in S : x >= y) <=> x = m
  OBVIOUS
<1>2. \E x \in S : \A y \in S : x >= y
  BY <1>1
<1>3. Max(S) = CHOOSE x \in S : \A y \in S : x >= y
  BY DEF Max
<1> QED BY <1>1, <1>2, <1>3

LEMMA WholeHolds == StreamInvariant => AnswerIsWhole
<1> SUFFICES ASSUME StreamInvariant, result \in {"complete", "unparsed"}
             PROVE  /\ At(reply, {"message_delta"}) # {}
                    /\ TextOf(Received) = ReplyText(reply)
                    /\ CallsOf(Received) = ReplyCalls(reply)
                    /\ UsageOf(Received) = ReplyUsage(reply)
                    /\ Last(Received) = Stop(LastDelta(reply).reason)
  BY DEF AnswerIsWhole
<1>1. PICK c \in Nat : Taken(c)
  BY DEF StreamInvariant, StreamInv
<1>2. IsSeq(sent) /\ read \in Nat /\ read <= Len(sent) /\ Len(sent) \in Nat
  BY Grown DEF StreamInvariant, ReaderInv, ChannelInv
<1>3. read > 0 /\ IsStop(sent[read]) /\ sent[read] # Stop(Error) /\ \A i \in 1..(read - 1) : ~IsStop(sent[i])
  BY DEF StreamInvariant, ReaderInv
<1>4. /\ read = Len(sent) /\ stop_reason # NoReason /\ sent[read] = Stop(stop_reason)
      /\ UsageOf(sent) = IF usage = NoUsage THEN <<>> ELSE <<Usage(usage)>>
  BY <1>2, <1>3 DEF StreamInvariant, StreamInv, GoodEnd
<1>5. PICK i \in Deltas(reply) : /\ i <= c /\ reply[i].reason # NoReason
                                  /\ stop_reason = IF reply[i].reason \in StopReasons THEN reply[i].reason ELSE Error
  BY <1>1, <1>4 DEF Taken, ReasonFact
<1>6. stop_reason = reply[i].reason
  BY <1>3, <1>4, <1>5
<1>7. IsReply(reply) /\ Len(reply) \in Nat /\ DOMAIN reply = 1..Len(reply)
  <2>1. reply \in Replies \cup {<<>>} /\ i \in DOMAIN reply
    BY DEF StreamInvariant, StreamInv, Deltas, At
  <2>2. Len(reply) \in Nat /\ DOMAIN reply = 1..Len(reply)
    BY <2>1, Typed
  <2>3. Len(reply) > 0
    BY <2>1, <2>2
  <2> QED BY <2>1, <2>2, <2>3, Typed
<1>8. Deltas(reply) \in SUBSET Nat /\ i \in 1..Len(reply) /\ c > 0
  BY <1>5, <1>7 DEF Deltas, At
<1>9. \A j \in Deltas(reply) : j <= i
  BY <1>5, <1>7 DEF Deltas, IsReply
<1>10. \A k \in At(reply, BlockEvents) : k < i
  BY <1>7 DEF Deltas, IsReply
<1>11. LastDelta(reply) = reply[i]
  <2>1. Max(Deltas(reply)) = i
    BY <1>8, <1>9, MaxIs
  <2> QED BY <2>1 DEF LastDelta, Deltas
<1>12. \A k \in (c + 1)..Len(reply) : k \notin At(reply, BlockEvents)
  BY <1>5, <1>8, <1>10
<1>13. c <= Len(reply) /\ SentFact(sent, reply, c)
  BY <1>1 DEF Taken, Holds
<1>14. PICK t : t = Received
  OBVIOUS
<1>15. /\ Len(t) = read /\ t[read] = sent[read]
       /\ \A ty : InOrder(Only(t, ty), read) = InOrder(Only(sent, ty), read)
  <2>1. t = SubSeq(sent, 1, read)
    BY <1>14 DEF Received
  <2>2. IsStartOf(t, sent, read)
    BY <1>2, <2>1, ReceivedIs
  <2> QED BY <1>2, <1>3, <2>2 DEF IsStartOf
<1>16. TextOf(t) = ReplyText(reply)
  <2>1. PICK g : g = Texts(reply)
    OBVIOUS
  <2>2. \A k \in (c + 1)..Len(reply) : k \notin DOMAIN g
    BY <1>12, <2>1 DEF Texts, At, BlockEvents
  <2>3. InOrder(g, Len(reply)) = InOrder(g, c)
    BY <1>7, <1>13, <2>2, InOrderSkips
  <2>4. InOrder(Only(sent, "Text"), read) = InOrder(g, c)
    BY <1>4, <1>13, <2>1 DEF SentFact
  <2> QED BY <1>15, <2>1, <2>3, <2>4 DEF TextOf, ReplyText
<1>17. CallsOf(t) = ReplyCalls(reply)
  <2>1. PICK g : g = Calls(reply)
    OBVIOUS
  <2>2. \A k \in (c + 1)..Len(reply) : k \notin DOMAIN g
    BY <1>12, <2>1 DEF Calls, ToolEnds, At, BlockEvents
  <2>3. InOrder(g, Len(reply)) = InOrder(g, c)
    BY <1>7, <1>13, <2>2, InOrderSkips
  <2>4. ErrorFree(sent, Len(sent))
    <3>1. ASSUME NEW k \in 1..Len(sent) PROVE sent[k] # Stop(Error)
      <4>1. CASE k = read
        BY <1>3, <4>1
      <4>2. CASE k \in 1..(read - 1)
        BY <1>3, <4>2 DEF IsStop, Stop
      <4> QED BY <1>2, <1>4, <4>1, <4>2
    <3> QED BY <3>1 DEF ErrorFree
  <2>5. InOrder(Only(sent, "ToolCall"), read) = InOrder(g, c)
    BY <1>4, <1>13, <2>1, <2>4 DEF SentFact
  <2> QED BY <1>15, <2>1, <2>3, <2>5 DEF CallsOf, ReplyCalls
<1>18. UsageOf(t) = ReplyUsage(reply)
  <2>1. usage = [input |-> reply[1].input, output |-> reply[i].output]
    <3>1. usage = [input |-> reply[1].input, output |-> usage.output]
      BY <1>1, <1>8 DEF Taken, UsageFact
    <3>2. usage.output = reply[i].output
      BY <1>1, <1>5, <1>9 DEF Taken, UsageFact
    <3> QED BY <3>1, <3>2
  <2>2. ReplyUsage(reply) = IF usage = NoUsage THEN <<>> ELSE <<Usage(usage)>>
    BY <1>11, <2>1 DEF ReplyUsage
  <2>3. UsageOf(t) = UsageOf(sent)
    BY <1>4, <1>15 DEF UsageOf
  <2> QED BY <1>4, <2>2, <2>3
<1>19. Last(t) = Stop(LastDelta(reply).reason)
  BY <1>4, <1>6, <1>11, <1>15 DEF Last
<1> QED BY <1>5, <1>14, <1>16, <1>17, <1>18, <1>19 DEF Deltas

---------------------------------------------------------------------------
\* Whatever a server sends and however the network cuts it, the adapter's
\* variables keep their types, no reader makes more than max_attempts attempts,
\* and none has waited longer than max_delay before each of them.
THEOREM StreamTypes == Spec => []TypeOK
BY StreamInit, StreamStep, TypesHold, PTL DEF Spec

\* For every reply, cut into any chunks with either line end and lost at any
\* point: the text and the tool calls a reader has taken from pump_sse's channel
\* are a prefix of those the server sent, also when its reply ends in an error.
THEOREM ReadersReadAPrefix == Spec => []ReadsAPrefix
BY StreamInit, StreamStep, PrefixHolds, PTL DEF Spec

\* For every reply: a reader that takes it for an answer has all its text, all
\* its tool calls with their own whole inputs, the final totals and the reason.
THEOREM AnswersAreWhole == Spec => []AnswerIsWhole
BY StreamInit, StreamStep, WholeHolds, PTL DEF Spec
=============================================================================
