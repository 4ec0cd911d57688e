---------------------------- MODULE RfQueueProofs ----------------------------
(***************************************************************************)
(* Proofs about the two queues of RfReconnect and those who wait in them:  *)
(* the mutex of Noble connects and the lifecycle gate of the driver.       *)
(***************************************************************************)
EXTENDS RfReconnectProofs

-----------------------------------------------------------------------------
(* What a queue gains and loses.                                           *)

\* Appending adds one member, and does not repeat it if it is new.
LEMMA AppendStands ==
  ASSUME NEW S, NEW q \in Seq(S), NEW x \in S, NEW y
  PROVE  /\ Stands(y, Append(q, x)) <=> Stands(y, q) \/ y = x
         /\ Single(y, q) /\ (y = x => ~Stands(y, q)) => Single(y, Append(q, x))
<1>1. /\ Len(Append(q, x)) = Len(q) + 1 /\ Len(q) \in Nat
      /\ \A i \in 1..Len(q) : Append(q, x)[i] = q[i]
      /\ Append(q, x)[Len(q) + 1] = x
  OBVIOUS
<1>2. \A i : i \in 1..Len(q) + 1 <=> i \in 1..Len(q) \/ i = Len(q) + 1
  BY <1>1
<1>3. Stands(y, Append(q, x)) <=> Stands(y, q) \/ y = x
  BY <1>1, <1>2 DEF Stands
<1>4. ASSUME Single(y, q), y = x => ~Stands(y, q) PROVE Single(y, Append(q, x))
  BY <1>1, <1>2, <1>4 DEF Single, Stands
<1> QED BY <1>3, <1>4

\* Taking the head removes it, if it stood there once, and nothing else.
LEMMA TailStands ==
  ASSUME NEW S, NEW q \in Seq(S), q # <<>>, NEW y
  PROVE  /\ Stands(Head(q), q)
         /\ Single(y, q) => Single(y, Tail(q))
         /\ Single(y, q) => (Stands(y, Tail(q)) <=> Stands(y, q) /\ y # Head(q))
         /\ y # Head(q) => (Stands(y, Tail(q)) <=> Stands(y, q))
<1>1. /\ Len(q) \in Nat \ {0} /\ Head(q) = q[1]
      /\ Len(Tail(q)) = Len(q) - 1
      /\ \A i \in 1..Len(q) - 1 : Tail(q)[i] = q[i + 1]
  OBVIOUS
<1>2. 1 \in 1..Len(q)
  BY <1>1
<1>3. \A i \in 1..Len(q) - 1 : i + 1 \in 1..Len(q) /\ i + 1 # 1
  BY <1>1
<1>4. \A i \in 1..Len(q) : i = 1 \/ (i - 1 \in 1..Len(q) - 1 /\ (i - 1) + 1 = i)
  BY <1>1
<1>5. Stands(Head(q), q)
  BY <1>1, <1>2 DEF Stands
<1>6. ASSUME Single(y, q) PROVE Single(y, Tail(q))
  <2> SUFFICES ASSUME NEW i \in 1..Len(q) - 1, NEW j \in 1..Len(q) - 1,
                      Tail(q)[i] = y, Tail(q)[j] = y
               PROVE  i = j
    BY <1>1 DEF Single
  <2>1. q[i + 1] = y /\ q[j + 1] = y
    BY <1>1
  <2>2. i + 1 = j + 1
    BY <1>3, <1>6, <2>1 DEF Single
  <2> QED BY <1>1, <2>2
<1>7. Stands(y, Tail(q)) => Stands(y, q)
  BY <1>1, <1>3 DEF Stands
<1>8. ASSUME Stands(y, q), y # Head(q) PROVE Stands(y, Tail(q))
  <2>1. PICK i \in 1..Len(q) : q[i] = y
    BY <1>8 DEF Stands
  <2>2. i # 1
    BY <1>1, <1>8, <2>1
  <2>3. i - 1 \in 1..Len(q) - 1 /\ Tail(q)[i - 1] = y
    BY <1>1, <1>4, <2>1, <2>2
  <2> QED BY <1>1, <2>3 DEF Stands
<1>9. ASSUME Single(y, q), Stands(y, Tail(q)) PROVE y # Head(q)
  <2>1. PICK i \in 1..Len(q) - 1 : Tail(q)[i] = y
    BY <1>1, <1>9 DEF Stands
  <2>2. q[i + 1] = y /\ i + 1 \in 1..Len(q) /\ i + 1 # 1
    BY <1>1, <1>3, <2>1
  <2>3. q[1] # y
    BY <1>2, <1>9, <2>2 DEF Single
  <2> QED BY <1>1, <2>3
<1> QED BY <1>5, <1>6, <1>7, <1>8, <1>9

-----------------------------------------------------------------------------
(* Who waits for what.                                                     *)

\* The two halves of QueuesServeWaiters, and that an attempt that waits out
\* its back-off has nothing of an earlier use left.
MutexServed ==
  \A o \in Owners : Single(o, mutex) /\ (Opening(o) <=> Stands(o, mutex))
GateServed ==
  \A x \in Awaited : Single(x, gate) /\ (Awaits(x) <=> Stands(x, gate))
BackoffFresh == \A a \in Attempts : body[a] = "backoff" => work[a] = "none"

Served == MutexServed /\ GateServed /\ BackoffFresh

\* The awaited operations, one by one.
LEMMA AwaitedAre ==
  /\ \A o \in Owners : Op("open", o) \in Awaited
  /\ \A a \in Attempts : Op("clean", a) \in Awaited /\ Op("undo", a) \in Awaited
  /\ Op("prepare", Manual) \in Awaited /\ Op("fail", Manual) \in Awaited
  /\ \A x \in Awaited :
       \/ \E o \in Owners : x = Op("open", o)
       \/ \E a \in Attempts : x = Op("clean", a) \/ x = Op("undo", a)
       \/ x = Op("prepare", Manual) \/ x = Op("fail", Manual)
<1>1. \A x \in Operation :
        \/ \E o \in Owners : x = Op("open", o)
        \/ \E a \in Attempts : x = Op("clean", a) \/ x = Op("undo", a)
        \/ x = Op("prepare", Manual) \/ x = Op("fail", Manual)
        \/ x.op \in Losses \cup {"user"}
  BY DEF Operation, Op
<1>2. \A k, w : Op(k, w).op = k /\ Op(k, w).for = w
  BY DEF Op
<1>3. "open" \notin Losses \cup {"user"} /\ "clean" \notin Losses \cup {"user"}
      /\ "undo" \notin Losses \cup {"user"} /\ "prepare" \notin Losses \cup {"user"}
      /\ "fail" \notin Losses \cup {"user"}
  BY DEF Losses
<1> QED BY <1>1, <1>2, <1>3, OpTypes DEF Awaited

\* What each of them waits for.
LEMMA AwaitsOf ==
  /\ \A o : Awaits(Op("open", o)) <=> mutex # <<>> /\ Head(mutex) = o
  /\ \A a : Awaits(Op("clean", a)) <=> body[a] = "cleaning"
  /\ \A a : Awaits(Op("undo", a)) <=> work[a] = "undoing"
  /\ \A o : Awaits(Op("prepare", o)) <=> manual = "preparing"
  /\ \A o : Awaits(Op("fail", o)) <=> manual = "failing"
  BY DEF Awaits, Op

\* And for what after a step.
LEMMA AwaitsOfNext ==
  /\ \A o : Awaits(Op("open", o))' <=> mutex' # <<>> /\ Head(mutex') = o
  /\ \A a : Awaits(Op("clean", a))' <=> body'[a] = "cleaning"
  /\ \A a : Awaits(Op("undo", a))' <=> work'[a] = "undoing"
  /\ \A o : Awaits(Op("prepare", o))' <=> manual' = "preparing"
  /\ \A o : Awaits(Op("fail", o))' <=> manual' = "failing"
  BY DEF Awaits, Op

\* Operations differ in their name or in whom they are for.
LEMMA OpDiffers ==
  ASSUME NEW k, NEW w, NEW l, NEW v, Op(k, w) = Op(l, v)
  PROVE  k = l /\ w = v
<1>1. Op(k, w).op = k /\ Op(k, w).for = w /\ Op(l, v).op = l /\ Op(l, v).for = v
  BY DEF Op
<1> QED BY <1>1

\* A gate r is a gate q without the operations out and with the new ones in.
From(q, r, out, in) ==
  \A x \in Awaited :
    /\ Stands(x, r) <=> (Stands(x, q) /\ x \notin out) \/ x \in in
    /\ Single(x, q) /\ (x \in in => ~Stands(x, q)) => Single(x, r)

\* Those who wait change in the same way.
To(out, in) ==
  \A x \in Awaited : Awaits(x)' <=> (Awaits(x) /\ x \notin out) \/ x \in in

\* If gate and waiters change alike, every waiter is still served.
LEMMA ServedBy ==
  ASSUME GateServed, NEW out, NEW in, From(gate, gate', out, in), To(out, in),
         \A x \in in : ~Awaits(x)
  PROVE  GateServed'
  BY DEF GateServed, From, To

\* How the waiters change, by what they are.
LEMMA ToBy ==
  ASSUME NEW out, NEW in,
         \A o \in Owners :
           (mutex' # <<>> /\ Head(mutex') = o) <=>
             \/ mutex # <<>> /\ Head(mutex) = o /\ Op("open", o) \notin out
             \/ Op("open", o) \in in,
         \A a \in Attempts :
           /\ body'[a] = "cleaning" <=>
                (body[a] = "cleaning" /\ Op("clean", a) \notin out) \/ Op("clean", a) \in in
           /\ work'[a] = "undoing" <=>
                (work[a] = "undoing" /\ Op("undo", a) \notin out) \/ Op("undo", a) \in in,
         manual' = "preparing" <=>
           \/ manual = "preparing" /\ Op("prepare", Manual) \notin out
           \/ Op("prepare", Manual) \in in,
         manual' = "failing" <=>
           (manual = "failing" /\ Op("fail", Manual) \notin out) \/ Op("fail", Manual) \in in
  PROVE  To(out, in)
<1> SUFFICES ASSUME NEW x \in Awaited
             PROVE  Awaits(x)' <=> (Awaits(x) /\ x \notin out) \/ x \in in
  BY DEF To
<1>1. CASE \E o \in Owners : x = Op("open", o)
  BY <1>1, AwaitsOf, AwaitsOfNext
<1>2. CASE \E a \in Attempts : x = Op("clean", a) \/ x = Op("undo", a)
  BY <1>2, AwaitsOf, AwaitsOfNext
<1>3. CASE x = Op("prepare", Manual) \/ x = Op("fail", Manual)
  BY <1>3, AwaitsOf, AwaitsOfNext
<1> QED BY <1>1, <1>2, <1>3, AwaitedAre

\* The gate is left alone, or gains what nobody awaits.
LEMMA FromSame ==
  ASSUME NEW q \in Seq(Operation), NEW x \in Operation
  PROVE  /\ From(q, q, {}, {})
         /\ x \notin Awaited => From(q, Append(q, x), {}, {})
         /\ From(q, Append(q, x), {}, {x})
<1>1. From(q, q, {}, {})
  BY DEF From
<1>2. From(q, Append(q, x), {}, {x})
  BY AppendStands DEF From
<1>3. ASSUME x \notin Awaited PROVE From(q, Append(q, x), {}, {})
  BY <1>3, AppendStands DEF From
<1> QED BY <1>1, <1>2, <1>3

\* The head of the gate is over.
LEMMA FromTail ==
  ASSUME NEW q \in Seq(Operation), q # <<>>, \A x \in Awaited : Single(x, q)
  PROVE  From(q, Tail(q), {Head(q)}, {})
  BY TailStands DEF From

\* One change of the gate after another: what is added last is new.
LEMMA FromThen ==
  ASSUME NEW q, NEW r \in Seq(Operation), NEW out, NEW in, From(q, r, out, in),
         NEW x \in Operation, ~Stands(x, q), x \notin in
  PROVE  From(q, Append(r, x), out, in \cup {x})
  BY AppendStands DEF From

\* The same when nobody awaits the last one.
LEMMA FromThenUnawaited ==
  ASSUME NEW q, NEW r \in Seq(Operation), NEW out, NEW in, From(q, r, out, in),
         NEW x \in Operation, x \notin Awaited
  PROVE  From(q, Append(r, x), out, in)
  BY AppendStands DEF From

-----------------------------------------------------------------------------
(* The mutex.                                                              *)

\* Nobody begins or ends to await an open.
LEMMA MutexSame ==
  ASSUME MutexServed, mutex' = mutex, \A o \in Owners : Opening(o)' <=> Opening(o)
  PROVE  MutexServed'
  BY DEF MutexServed

\* An owner begins to await its open.
LEMMA MutexJoins ==
  ASSUME MutexServed, mutex \in Seq(Owners), NEW o \in Owners, ~Opening(o),
         mutex' = Append(mutex, o),
         \A p \in Owners : Opening(p)' <=> Opening(p) \/ p = o
  PROVE  MutexServed'
  BY AppendStands DEF MutexServed

\* The owner whose turn it is awaits its open no longer.
LEMMA MutexLeaves ==
  ASSUME MutexServed, mutex \in Seq(Owners), mutex # <<>>,
         mutex' = Tail(mutex),
         \A p \in Owners : Opening(p)' <=> Opening(p) /\ p # Head(mutex)
  PROVE  MutexServed'
  BY TailStands DEF MutexServed

\* The open that the mutex lets in when the one at its head is over.
NextOpens == IF Len(mutex) > 1 THEN {Op("open", mutex[2])} ELSE {}

\* An open is over: its owner leaves the mutex, and the next open takes its
\* place in the gate.
LEMMA OpenOver ==
  ASSUME QueuesOK(gate, mutex), MutexServed, GateServed, NEW o \in Owners,
         Heads("open", o)
  PROVE  /\ mutex # <<>> /\ Head(mutex) = o /\ Opening(o)
         /\ Handover \in Seq(Operation)
         /\ From(gate, Handover, {Op("open", o)}, NextOpens)
         /\ NextOpens \subseteq Awaited /\ \A x \in NextOpens : ~Awaits(x)
         /\ \A p \in Owners :
              Tail(mutex) # <<>> /\ Head(Tail(mutex)) = p <=>
                \/ mutex # <<>> /\ Head(mutex) = p /\ Op("open", p) \notin {Op("open", o)}
                \/ Op("open", p) \in NextOpens
<1>1. gate \in Seq(Operation) /\ mutex \in Seq(Owners)
  BY DEF QueuesOK
<1>2. gate # <<>> /\ Head(gate) = Op("open", o) /\ Op("open", o) \in Awaited
  BY AwaitedAre DEF Heads
<1>3. Stands(Op("open", o), gate)
  BY <1>1, <1>2, TailStands
<1>4. mutex # <<>> /\ Head(mutex) = o
  BY <1>2, <1>3, AwaitsOf DEF GateServed
<1>5. Stands(o, mutex) /\ Single(o, mutex) /\ Opening(o)
  BY <1>1, <1>4, TailStands DEF MutexServed
<1>6. From(gate, Tail(gate), {Op("open", o)}, {})
  BY <1>1, <1>2, FromTail DEF GateServed
<1>7. Tail(gate) \in Seq(Operation)
  BY <1>1, <1>2
<1>8. Len(mutex) \in Nat \ {0} /\ Head(mutex) = mutex[1]
  BY <1>1, <1>4
<1>9. CASE Len(mutex) > 1
  <2>1. 1 \in 1..Len(mutex) /\ 2 \in 1..Len(mutex)
    BY <1>8, <1>9
  <2>2. mutex[2] \in Owners
    BY <1>1, <2>1
  <2>3. mutex[2] # o
    BY <1>4, <1>5, <1>8, <2>1 DEF Single
  <2> DEFINE x == Op("open", mutex[2])
  <2>4. x \in Awaited /\ x \in Operation
    BY <2>2, AwaitedAre, OpTypes
  <2>5. ~Awaits(x)
    BY <1>4, <2>3, AwaitsOf
  <2>6. ~Stands(x, gate)
    BY <2>4, <2>5 DEF GateServed
  <2>7. From(gate, Append(Tail(gate), x), {Op("open", o)}, {} \cup {x})
    BY <1>6, <1>7, <2>4, <2>6, FromThen
  <2>8. Tail(mutex) # <<>> /\ Head(Tail(mutex)) = mutex[2]
    <3>1. Tail(mutex) \in Seq(Owners) /\ Len(Tail(mutex)) = Len(mutex) - 1
      BY <1>1, <1>4
    <3>2. Len(Tail(mutex)) # 0
      BY <1>8, <1>9, <3>1
    <3>3. 1 \in 1..Len(mutex) - 1
      BY <1>8, <1>9
    <3>4. Tail(mutex)[1] = mutex[1 + 1]
      BY <1>1, <1>4, <3>3
    <3>5. Tail(mutex) # <<>>
      BY <3>1, <3>2, EmptySeq
    <3>6. Head(Tail(mutex)) = Tail(mutex)[1]
      BY <3>1, <3>5
    <3> QED BY <3>4, <3>5, <3>6
  <2>9. NextOpens = {x} /\ Handover = Append(Tail(gate), x)
    BY <1>9 DEF NextOpens, Handover
  <2>10. Handover \in Seq(Operation)
    BY <1>7, <2>4, <2>9
  <2>11. \A p \in Owners : Op("open", p) \in {x} <=> p = mutex[2]
    BY OpDiffers
  <2>12. \A p \in Owners : Op("open", p) \notin {Op("open", o)} <=> p # o
    BY OpDiffers
  <2>13. {} \cup {x} = {x}
    OBVIOUS
  <2> HIDE DEF x
  <2> QED
    BY <1>4, <1>5, <2>3, <2>4, <2>5, <2>7, <2>8, <2>9, <2>10, <2>11, <2>12, <2>13
<1>10. CASE ~(Len(mutex) > 1)
  <2>1. Tail(mutex) = <<>>
    <3>1. Tail(mutex) \in Seq(Owners) /\ Len(Tail(mutex)) = Len(mutex) - 1
      BY <1>1, <1>4
    <3>2. Len(Tail(mutex)) = 0
      BY <1>8, <1>10, <3>1
    <3> QED BY <3>1, <3>2, EmptySeq
  <2>2. NextOpens = {} /\ Handover = Tail(gate)
    BY <1>10 DEF NextOpens, Handover
  <2> QED BY <1>4, <1>5, <1>6, <1>7, <2>1, <2>2
<1> QED BY <1>9, <1>10

-----------------------------------------------------------------------------
(* The pieces of the handlers.                                             *)

\* Operations are the same when name and owner are.
LEMMA OpEq == \A k, w, l, v : Op(k, w) = Op(l, v) <=> k = l /\ w = v
  BY OpDiffers

\* The disconnects of losses and of the user have no waiter.
LEMMA UnawaitedAre ==
  \A t \in Losses \cup {"user"} : Op(t, Manual) \in Operation /\ Op(t, Manual) \notin Awaited
  BY OpTypes DEF Awaited, Op

\* The head of the gate is over, and nobody waits for it.
LEMMA FromTailUnawaited ==
  ASSUME NEW q \in Seq(Operation), q # <<>>, \A x \in Awaited : Single(x, q),
         Head(q) \notin Awaited
  PROVE  From(q, Tail(q), {}, {})
  BY TailStands DEF From

\* A loss that counts adds at most a disconnect that has no waiter.
LEMMA LostGate ==
  ASSUME NEW late, NEW queue \in Seq(Operation), NEW named, Lost(late, queue, named),
         NEW out, NEW in, From(gate, queue, out, in)
  PROVE  From(gate, gate', out, in)
<1>1. PICK t \in Losses : gate' = queue \/ gate' = Append(queue, Op(t, Manual))
  BY DEF Lost, Losses
<1>2. Op(t, Manual) \in Operation /\ Op(t, Manual) \notin Awaited
  BY UnawaitedAre
<1> QED BY <1>1, <1>2, FromThenUnawaited

\* So does one that may not count.
LEMMA ConnectionGate ==
  ASSUME QueuesOK(gate, mutex), ConnectionLost
  PROVE  From(gate, gate', {}, {})
<1>1. gate \in Seq(Operation) /\ From(gate, gate, {}, {})
  BY DEF QueuesOK, From
<1> QED BY <1>1, LostGate DEF ConnectionLost

\* Nothing changes for those who wait.
LEMMA ServedSame ==
  ASSUME Served, mutex' = mutex, From(gate, gate', {}, {}),
         \A a \in Attempts :
           /\ body'[a] = "cleaning" <=> body[a] = "cleaning"
           /\ work'[a] = "undoing" <=> work[a] = "undoing"
           /\ work'[a] \in {"opening", "abandoned"} <=> work[a] \in {"opening", "abandoned"}
           /\ body'[a] = "backoff" => work'[a] = "none",
         \A w \in {"opening", "preparing", "failing"} : manual' = w <=> manual = w
  PROVE  Served'
<1>1. \A o \in Owners : Opening(o)' <=> Opening(o)
  BY DEF Opening, Owners
<1>2. MutexServed'
  BY <1>1, MutexSame DEF Served
<1>3. To({}, {})
  <2> HIDE DEF Served
  <2> QED BY ToBy
<1>4. GateServed'
  BY <1>3, ServedBy DEF Served
<1> QED BY <1>2, <1>4 DEF Served, BackoffFresh

\* The open that enters the gate when o joins the mutex.
JoinOpens(o) == IF mutex = <<>> THEN {Op("open", o)} ELSE {}

\* The gate and its waiters when o joins the mutex.
LEMMA OpenBegins ==
  ASSUME QueuesOK(gate, mutex), GateServed, NEW o \in Owners,
         NEW queue \in Seq(Operation), NEW out, From(gate, queue, out, {}),
         mutex' = Append(mutex, o),
         gate' = IF mutex = <<>> THEN Append(queue, Op("open", o)) ELSE queue
  PROVE  /\ From(gate, gate', out, JoinOpens(o))
         /\ \A x \in JoinOpens(o) : ~Awaits(x)
         /\ \A p \in Owners :
              mutex' # <<>> /\ Head(mutex') = p <=>
                \/ mutex # <<>> /\ Head(mutex) = p
                \/ Op("open", p) \in JoinOpens(o)
<1>1. mutex \in Seq(Owners) /\ Op("open", o) \in Operation /\ Op("open", o) \in Awaited
  BY OpTypes, AwaitedAre DEF QueuesOK
<1>2. mutex' # <<>> /\ Head(mutex') = IF mutex = <<>> THEN o ELSE Head(mutex)
  <2>1. /\ Append(mutex, o) \in Seq(Owners) /\ Len(Append(mutex, o)) = Len(mutex) + 1
        /\ Len(mutex) \in Nat /\ Append(mutex, o) # <<>>
        /\ Append(mutex, o)[Len(mutex) + 1] = o
        /\ \A i \in 1..Len(mutex) : Append(mutex, o)[i] = mutex[i]
    BY <1>1
  <2>2. Head(Append(mutex, o)) = Append(mutex, o)[1]
    BY <2>1
  <2>3. CASE mutex = <<>>
    <3>1. Len(mutex) = 0
      BY <2>3
    <3> QED BY <2>1, <2>2, <2>3, <3>1
  <2>4. CASE mutex # <<>>
    <3>1. 1 \in 1..Len(mutex) /\ Head(mutex) = mutex[1]
      BY <1>1, <2>4
    <3> QED BY <2>1, <2>2, <2>4, <3>1
  <2> QED BY <2>3, <2>4
<1>3. CASE mutex = <<>>
  <2>1. ~Awaits(Op("open", o))
    BY <1>3, AwaitsOf
  <2>2. ~Stands(Op("open", o), gate)
    BY <1>1, <2>1 DEF GateServed
  <2>3. From(gate, Append(queue, Op("open", o)), out, {} \cup {Op("open", o)})
    BY <1>1, <2>2, FromThen
  <2>4. JoinOpens(o) = {Op("open", o)} /\ {} \cup {Op("open", o)} = {Op("open", o)}
    BY <1>3 DEF JoinOpens
  <2> QED BY <1>2, <1>3, <2>1, <2>3, <2>4, OpEq
<1>4. CASE mutex # <<>>
  <2>1. JoinOpens(o) = {}
    BY <1>4 DEF JoinOpens
  <2> QED BY <1>2, <1>4, <2>1
<1> QED BY <1>3, <1>4

\* What the finally of an attempt does to who waits.
LEMMA SettleBody ==
  ASSUME Plain, NEW a \in Attempts, Settle(a)
  PROVE  \A b \in Attempts : body'[b] = IF b = a THEN "idle" ELSE body[b]
  BY DEF Settle, Plain, Places

\* The catch of an attempt that races: it waits for its disconnect, or for
\* nothing any more.
LEMMA CatchGate ==
  ASSUME Plain, GateServed, NEW a \in Attempts, body[a] = "racing",
         NEW queue \in Seq(Operation), NEW opened, Catch(a, queue, opened),
         NEW out, NEW in, From(gate, queue, out, in), Op("clean", a) \notin in
  PROVE  \E add \in {{}, {Op("clean", a)}} :
           /\ From(gate, gate', out, in \cup add)
           /\ \A x \in add : ~Awaits(x)
           /\ \A b \in Attempts :
                /\ body'[b] = "cleaning" <=> body[b] = "cleaning" \/ Op("clean", b) \in add
                /\ b # a => body'[b] = body[b]
                /\ body'[b] = "backoff" => body[b] = "backoff"
<1>1. Op("clean", a) \in Operation /\ Op("clean", a) \in Awaited
  BY OpTypes, AwaitedAre
<1>2. CASE opened \/ Named
  <2>1. body' = [body EXCEPT ![a] = "cleaning"] /\ gate' = Append(queue, Op("clean", a))
    BY <1>2 DEF Catch
  <2>2. ~Awaits(Op("clean", a))
    BY AwaitsOf
  <2>3. ~Stands(Op("clean", a), gate)
    BY <1>1, <2>2 DEF GateServed
  <2>4. From(gate, gate', out, in \cup {Op("clean", a)})
    BY <1>1, <2>1, <2>3, FromThen
  <2>5. \A b \in Attempts : body'[b] = IF b = a THEN "cleaning" ELSE body[b]
    BY <2>1 DEF Plain, Places
  <2> QED BY <2>2, <2>4, <2>5, OpEq
<1>3. CASE ~(opened \/ Named)
  <2>1. Settle(a) /\ gate' = queue /\ in \cup {} = in
    BY <1>3 DEF Catch
  <2> QED BY <2>1, SettleBody
<1> QED BY <1>2, <1>3

\* The undo of a superseded attempt that has not been undone yet.
LEMMA UndoGate ==
  ASSUME Plain, GateServed, NEW a \in Attempts, work[a] # "undoing",
         NEW queue \in Seq(Operation), Undo(a, queue),
         NEW out, NEW in, From(gate, queue, out, in), Op("undo", a) \notin in
  PROVE  \E add \in {{}, {Op("undo", a)}} :
           /\ From(gate, gate', out, in \cup add)
           /\ \A x \in add : ~Awaits(x)
           /\ body' = body
           /\ \A b \in Attempts :
                /\ work'[b] = "undoing" <=> work[b] = "undoing" \/ Op("undo", b) \in add
                /\ b # a => work'[b] = work[b]
                /\ work'[a] \in {"undoing", "none"}
<1>1. Op("undo", a) \in Operation /\ Op("undo", a) \in Awaited
  BY OpTypes, AwaitedAre
<1>2. ~Awaits(Op("undo", a))
  BY AwaitsOf
<1>3. ~Stands(Op("undo", a), gate)
  BY <1>1, <1>2 DEF GateServed
<1>4. CASE body[a] = "racing" \/ work[a] = "opening"
  <2>1. /\ work' = [work EXCEPT ![a] = "undoing"] /\ body' = body
        /\ gate' = Append(queue, Op("undo", a))
    BY <1>4 DEF Undo
  <2>2. From(gate, gate', out, in \cup {Op("undo", a)})
    BY <1>1, <1>3, <2>1, FromThen
  <2>3. \A b \in Attempts : work'[b] = IF b = a THEN "undoing" ELSE work[b]
    BY <2>1 DEF Plain, Places
  <2> QED BY <1>2, <2>1, <2>2, <2>3, OpEq
<1>5. CASE ~(body[a] = "racing" \/ work[a] = "opening")
  <2>1. work' = [work EXCEPT ![a] = "none"] /\ body' = body /\ gate' = queue
        /\ in \cup {} = in
    BY <1>5 DEF Undo
  <2>2. \A b \in Attempts : work'[b] = IF b = a THEN "none" ELSE work[b]
    BY <2>1 DEF Plain, Places
  <2> QED BY <2>1, <2>2
<1> QED BY <1>4, <1>5

-----------------------------------------------------------------------------
(* The steps.                                                              *)

\* A step that leaves the mutex and those who wait alone.
LEMMA ServedAlone ==
  ASSUME Served, UNCHANGED <<body, work, manual, mutex>>, From(gate, gate', {}, {})
  PROVE  Served'
<1>1. \A a \in Attempts : body'[a] = "backoff" => work'[a] = "none"
  BY DEF Served, BackoffFresh
<1> QED BY <1>1, ServedSame

\* The gate as it is, and without its head.
LEMMA GateKept ==
  ASSUME QueuesOK(gate, mutex), GateServed
  PROVE  /\ gate \in Seq(Operation) /\ From(gate, gate, {}, {})
         /\ gate # <<>> => /\ Tail(gate) \in Seq(Operation)
                           /\ From(gate, Tail(gate), {Head(gate)}, {})
                           /\ Head(gate) \notin Awaited => From(gate, Tail(gate), {}, {})
<1>1. gate \in Seq(Operation) /\ \A x \in Awaited : Single(x, gate)
  BY DEF QueuesOK, GateServed
<1>2. From(gate, gate, {}, {})
  BY DEF From
<1> QED BY <1>1, <1>2, FromTail, FromTailUnawaited

\* What happens to the link.
LEMMA EventsServe ==
  ASSUME QueuesOK(gate, mutex), Served, Events
  PROVE  Served'
<1>1. gate \in Seq(Operation) /\ From(gate, gate, {}, {})
  BY GateKept DEF Served
<1>2. ASSUME UNCHANGED <<body, work, manual, mutex>>,
             gate' = gate \/ ConnectionLost \/ Lost(deferred, gate, Named)
      PROVE  Served'
  <2>1. From(gate, gate', {}, {})
    BY <1>1, <1>2, ConnectionGate, LostGate
  <2> QED BY <1>2, <2>1, ServedAlone
<1>3. CASE LinkLost
  BY <1>2, <1>3 DEF LinkLost, attempt
<1>4. CASE DeviceDisconnected
  BY <1>2, <1>4 DEF DeviceDisconnected, attempt, driver
<1>5. ASSUME NEW stored \in BOOLEAN, NobleDrop(stored) PROVE Served'
  BY <1>2, <1>5 DEF NobleDrop, attempt
<1>6. ASSUME NEW stored \in BOOLEAN, PowerResume(stored) PROVE Served'
  BY <1>2, <1>6 DEF PowerResume, attempt
<1>7. CASE YieldReleased
  BY <1>2, <1>7 DEF YieldReleased, attempt
<1>8. CASE PowerSuspend
  BY <1>2, <1>8 DEF PowerSuspend, attempt, driver
<1> QED BY <1>3, <1>4, <1>5, <1>6, <1>7, <1>8 DEF Events

\* The disconnect of a loss has no waiter.
LEMMA LossesServe ==
  ASSUME QueuesOK(gate, mutex), Served, NEW t \in Losses, NEW n \in BOOLEAN,
         Parted(t, n) \/ LossTail(t)
  PROVE  Served'
<1>1. Op(t, Manual) \in Operation /\ Op(t, Manual) \notin Awaited
  BY UnawaitedAre
<1>2. gate \in Seq(Operation) /\ From(gate, gate, {}, {})
  BY GateKept DEF Served
<1>3. CASE Parted(t, n)
  <2>1. gate' = gate \/ gate' = Append(gate, Op(t, Manual))
    BY <1>3 DEF Parted, Queues, driver
  <2>2. From(gate, gate', {}, {})
    BY <1>1, <1>2, <2>1, FromThenUnawaited
  <2>3. UNCHANGED <<body, work, manual, mutex>>
    BY <1>3 DEF Parted, Queues, driver, attempt
  <2> QED BY <2>2, <2>3, ServedAlone
<1>4. CASE LossTail(t)
  <2>1. gate # <<>> /\ Head(gate) = Op(t, Manual) /\ gate' = Tail(gate)
    BY <1>4 DEF LossTail, Heads, Closes
  <2>2. From(gate, gate', {}, {})
    BY <1>1, <2>1, GateKept DEF Served
  <2>3. UNCHANGED <<body, work, manual, mutex>>
    BY <1>4 DEF LossTail, Closes, attempt
  <2> QED BY <2>2, <2>3, ServedAlone
<1> QED BY <1>3, <1>4

\* An attempt that begins has nothing left that somebody waits for.
LEMMA OwnerServes ==
  ASSUME Plain, QueuesOK(gate, mutex), Served, Owner
  PROVE  Served'
<1>1. mutex' = mutex /\ gate' = gate /\ manual' = manual
  BY DEF Owner, driver
<1>2. From(gate, gate', {}, {})
  BY <1>1, GateKept DEF Served
<1>3. CASE OwnerNotes \/ OwnerGivesUp
  <2>1. UNCHANGED <<body, work>>
    BY <1>3 DEF OwnerNotes, OwnerGivesUp, attempt
  <2> QED BY <1>1, <1>2, <2>1, ServedAlone
<1>4. CASE OwnerStarts
  <2>1. PICK a \in Over : /\ body' = [body EXCEPT ![a] = "backoff"]
                          /\ work' = [work EXCEPT ![a] = "none"]
    BY <1>4 DEF OwnerStarts
  <2>2. /\ a \in Attempts /\ body[a] = "idle"
        /\ work[a] \notin {"opening", "abandoned", "undoing"}
    BY DEF Over
  <2>3. \A b \in Attempts : /\ body'[b] = IF b = a THEN "backoff" ELSE body[b]
                            /\ work'[b] = IF b = a THEN "none" ELSE work[b]
    BY <2>1, <2>2 DEF Plain, Places
  <2>4. \A b \in Attempts :
          /\ body'[b] = "cleaning" <=> body[b] = "cleaning"
          /\ work'[b] = "undoing" <=> work[b] = "undoing"
          /\ work'[b] \in {"opening", "abandoned"} <=> work[b] \in {"opening", "abandoned"}
          /\ body'[b] = "backoff" => work'[b] = "none"
    BY <2>2, <2>3 DEF Served, BackoffFresh
  <2> QED BY <1>1, <1>2, <2>4, ServedSame
<1> QED BY <1>3, <1>4 DEF Owner

\* The end of a back-off: nothing yet, or an open.
LEMMA BackoffServes ==
  ASSUME Plain, QueuesOK(gate, mutex), Served, NEW a \in Attempts, Backoff(a)
  PROVE  Served'
<1>1. body[a] = "backoff" /\ work[a] = "none" /\ manual' = manual
  BY DEF Backoff, BackoffAborted, BackoffSuspended, BackoffDone, Served, BackoffFresh
<1>2. gate \in Seq(Operation) /\ From(gate, gate, {}, {})
  BY GateKept DEF Served
<1>3. CASE body' = [body EXCEPT ![a] = "idle"] /\ UNCHANGED <<work, gate, mutex>>
  <2>1. \A b \in Attempts : body'[b] = IF b = a THEN "idle" ELSE body[b]
    BY <1>3 DEF Plain, Places
  <2>2. \A b \in Attempts :
          /\ body'[b] = "cleaning" <=> body[b] = "cleaning"
          /\ work'[b] = "undoing" <=> work[b] = "undoing"
          /\ work'[b] \in {"opening", "abandoned"} <=> work[b] \in {"opening", "abandoned"}
          /\ body'[b] = "backoff" => work'[b] = "none"
    BY <1>1, <1>3, <2>1 DEF Served, BackoffFresh
  <2>3. From(gate, gate', {}, {})
    BY <1>2, <1>3
  <2> QED BY <1>1, <1>3, <2>2, <2>3, ServedSame
<1>4. CASE BackoffDone(a) /\ BeginOpening(a)
  <2>1. \A b \in Attempts : /\ body'[b] = IF b = a THEN "racing" ELSE body[b]
                            /\ work'[b] = IF b = a THEN "opening" ELSE work[b]
    BY <1>4 DEF BeginOpening, Plain, Places
  <2>2. a \in Owners /\ a # Manual
    BY OwnersAssumption DEF Owners
  <2>3. /\ mutex' = Append(mutex, a)
        /\ gate' = IF mutex = <<>> THEN Append(gate, Op("open", a)) ELSE gate
    BY <1>4 DEF BeginOpening, QueuesOpen
  <2>4. ~Opening(a) /\ \A p \in Owners : Opening(p)' <=> Opening(p) \/ p = a
    BY <1>1, <2>1, <2>2 DEF Opening, Owners
  <2>5. MutexServed'
    BY <2>2, <2>3, <2>4, MutexJoins DEF Served, QueuesOK
  <2>6. /\ From(gate, gate', {}, JoinOpens(a)) /\ \A x \in JoinOpens(a) : ~Awaits(x)
        /\ \A p \in Owners :
             mutex' # <<>> /\ Head(mutex') = p <=>
               \/ mutex # <<>> /\ Head(mutex) = p
               \/ Op("open", p) \in JoinOpens(a)
    BY <1>2, <2>2, <2>3, OpenBegins DEF Served
  <2>7. \A k, w : Op(k, w) \in JoinOpens(a) => k = "open"
    BY OpEq DEF JoinOpens
  <2>8. To({}, JoinOpens(a))
    <3>1. \A b \in Attempts :
            /\ body'[b] = "cleaning" <=> body[b] = "cleaning" \/ Op("clean", b) \in JoinOpens(a)
            /\ work'[b] = "undoing" <=> work[b] = "undoing" \/ Op("undo", b) \in JoinOpens(a)
      BY <1>1, <2>1, <2>7
    <3>2. /\ Op("prepare", Manual) \notin JoinOpens(a)
          /\ Op("fail", Manual) \notin JoinOpens(a)
      BY <2>7
    <3> QED BY <1>1, <2>6, <3>1, <3>2, ToBy
  <2>9. GateServed'
    BY <2>6, <2>8, ServedBy DEF Served
  <2>10. BackoffFresh'
    BY <2>1 DEF Served, BackoffFresh
  <2> QED BY <2>5, <2>9, <2>10 DEF Served
<1> QED
  BY <1>3, <1>4
  DEF Backoff, BackoffAborted, BackoffSuspended, BackoffDone, SkipOverlap, driver

\* What changes for those who wait when an attempt joins them, a step that
\* leaves the mutex alone.
LEMMA ServedJoins ==
  ASSUME Served, NEW add, From(gate, gate', {}, add), \A x \in add : ~Awaits(x),
         UNCHANGED <<mutex, manual>>,
         \A k, w : Op(k, w) \in add => k \in {"clean", "undo"},
         \A b \in Attempts :
           /\ body'[b] = "cleaning" <=> body[b] = "cleaning" \/ Op("clean", b) \in add
           /\ work'[b] = "undoing" <=> work[b] = "undoing" \/ Op("undo", b) \in add
           /\ work'[b] \in {"opening", "abandoned"} <=> work[b] \in {"opening", "abandoned"}
           /\ body'[b] = "backoff" => work'[b] = "none"
  PROVE  Served'
<1>1. \A o \in Owners : Opening(o)' <=> Opening(o)
  BY DEF Opening, Owners
<1>2. MutexServed'
  BY <1>1, MutexSame DEF Served
<1>3. /\ \A o \in Owners : Op("open", o) \notin add
      /\ Op("prepare", Manual) \notin add /\ Op("fail", Manual) \notin add
  OBVIOUS
<1>4. To({}, add)
  <2> HIDE DEF Served
  <2> QED BY <1>3, ToBy
<1>5. GateServed'
  BY <1>4, ServedBy DEF Served
<1> QED BY <1>2, <1>5 DEF Served, BackoffFresh

\* The deadline: the open that is given up keeps its place in the mutex.
LEMMA DeadlineServes ==
  ASSUME Plain, QueuesOK(gate, mutex), Served, NEW a \in Attempts, Deadline(a)
  PROVE  Served'
<1>1. gate \in Seq(Operation) /\ From(gate, gate, {}, {})
  BY GateKept DEF Served
<1>2. body[a] = "racing" /\ UNCHANGED <<mutex, manual>>
  BY DEF Deadline, aside
<1>3. CASE work[a] = "undoing"
  <2>1. Settle(a) /\ UNCHANGED <<work, gate>>
    BY <1>3 DEF Deadline, CatchAfterUndo
  <2>2. \A b \in Attempts : body'[b] = IF b = a THEN "idle" ELSE body[b]
    BY <2>1, SettleBody
  <2>3. \A b \in Attempts :
          /\ body'[b] = "cleaning" <=> body[b] = "cleaning"
          /\ body'[b] = "backoff" => work'[b] = "none"
    BY <1>2, <2>1, <2>2 DEF Served, BackoffFresh
  <2>4. From(gate, gate', {}, {})
    BY <1>1, <2>1
  <2> QED BY <1>2, <2>1, <2>3, <2>4, ServedSame
<1>4. CASE work[a] # "undoing"
  <2>1. /\ Catch(a, gate, work[a] # "opening")
        /\ work' = IF work[a] = "opening" /\ Named
                   THEN [work EXCEPT ![a] = "abandoned"] ELSE work
    BY <1>4 DEF Deadline
  <2>2. Op("clean", a) \notin {}
    OBVIOUS
  <2>3. PICK add \in {{}, {Op("clean", a)}} :
           /\ From(gate, gate', {}, {} \cup add)
           /\ \A x \in add : ~Awaits(x)
           /\ \A b \in Attempts :
                /\ body'[b] = "cleaning" <=> body[b] = "cleaning" \/ Op("clean", b) \in add
                /\ b # a => body'[b] = body[b]
                /\ body'[b] = "backoff" => body[b] = "backoff"
    BY <1>1, <1>2, <2>1, <2>2, CatchGate DEF Served
  <2>4. {} \cup add = add
    OBVIOUS
  <2>5. \A k, w : Op(k, w) \in add => k = "clean"
    BY <2>3, OpEq
  <2>6. \A b \in Attempts :
          work'[b] = work[b] \/ (work'[b] = "abandoned" /\ work[b] = "opening" /\ b = a)
    BY <2>1 DEF Plain, Places
  <2>7. \A b \in Attempts :
          /\ work'[b] = "undoing" <=> work[b] = "undoing" \/ Op("undo", b) \in add
          /\ work'[b] \in {"opening", "abandoned"} <=> work[b] \in {"opening", "abandoned"}
          /\ body'[b] = "backoff" => work'[b] = "none"
    BY <1>2, <2>3, <2>5, <2>6 DEF Served, BackoffFresh
  <2> QED BY <1>2, <2>3, <2>4, <2>5, <2>7, ServedJoins
<1> QED BY <1>3, <1>4

\* A disconnect that somebody waited for is over.
LEMMA ServedLeaves ==
  ASSUME Served, QueuesOK(gate, mutex), gate # <<>>, gate' = Tail(gate), mutex' = mutex,
         \A b \in Attempts :
           /\ body'[b] = "cleaning" <=> body[b] = "cleaning" /\ Op("clean", b) # Head(gate)
           /\ work'[b] = "undoing" <=> work[b] = "undoing" /\ Op("undo", b) # Head(gate)
           /\ work'[b] \in {"opening", "abandoned"} <=> work[b] \in {"opening", "abandoned"}
           /\ body'[b] = "backoff" => work'[b] = "none",
         \A o \in Owners : Op("open", o) # Head(gate),
         Op("prepare", Manual) # Head(gate), Op("fail", Manual) # Head(gate),
         manual' = manual
  PROVE  Served'
<1>1. \A o \in Owners : Opening(o)' <=> Opening(o)
  BY DEF Opening, Owners
<1>2. MutexServed'
  BY <1>1, MutexSame DEF Served
<1>3. To({Head(gate)}, {})
  <2> HIDE DEF Served
  <2> QED BY ToBy
<1>4. From(gate, gate', {Head(gate)}, {})
  BY GateKept DEF Served
<1>5. GateServed'
  BY <1>3, <1>4, ServedBy DEF Served
<1> QED BY <1>2, <1>5 DEF Served, BackoffFresh

\* The cleanup of an attempt is over.
LEMMA CleanedServes ==
  ASSUME Plain, QueuesOK(gate, mutex), Served, NEW a \in Attempts, Cleaned(a)
  PROVE  Served'
<1>1. /\ gate # <<>> /\ Head(gate) = Op("clean", a) /\ gate' = Tail(gate)
      /\ UNCHANGED <<work, mutex, manual>>
  BY DEF Cleaned, Heads, Closes, aside
<1>2. \A b \in Attempts : body'[b] = IF b = a THEN "idle" ELSE body[b]
  BY SettleBody DEF Cleaned
<1>3. \A b \in Attempts :
        /\ body'[b] = "cleaning" <=> body[b] = "cleaning" /\ Op("clean", b) # Head(gate)
        /\ work'[b] = "undoing" <=> work[b] = "undoing" /\ Op("undo", b) # Head(gate)
        /\ body'[b] = "backoff" => work'[b] = "none"
  BY <1>1, <1>2, OpEq DEF Served, BackoffFresh
<1>4. /\ \A o \in Owners : Op("open", o) # Head(gate)
      /\ Op("prepare", Manual) # Head(gate) /\ Op("fail", Manual) # Head(gate)
  BY <1>1, OpEq
<1> QED BY <1>1, <1>3, <1>4, ServedLeaves

\* What an attempt opened is closed again, and it may hear of it.
LEMMA UndoneServes ==
  ASSUME Plain, QueuesOK(gate, mutex), Served, NEW a \in Attempts, Undone(a)
  PROVE  Served'
<1>1. /\ gate # <<>> /\ Head(gate) = Op("undo", a) /\ gate' = Tail(gate)
      /\ UNCHANGED <<mutex, manual>>
      /\ work' = [work EXCEPT ![a] = IF @ = "undoing" THEN "none" ELSE @]
  BY DEF Undone, Heads, Closes, aside
<1>2. /\ gate \in Seq(Operation) /\ Op("undo", a) \in Awaited
  BY AwaitedAre DEF QueuesOK
<1>3. Stands(Op("undo", a), gate)
  BY <1>1, <1>2, TailStands
<1>4. work[a] = "undoing"
  BY <1>2, <1>3, AwaitsOf DEF Served, GateServed
<1>5. \A b \in Attempts : work'[b] = IF b = a THEN "none" ELSE work[b]
  BY <1>1, <1>4 DEF Plain, Places
<1>6. \A b \in Attempts : body'[b] = body[b] \/ (b = a /\ body[b] = "racing" /\ body'[b] = "idle")
  <2>1. CASE body[a] = "racing"
    BY <1>4, <2>1, SettleBody DEF Undone, CatchAfterUndo
  <2>2. CASE body[a] # "racing"
    BY <2>2 DEF Undone
  <2> QED BY <2>1, <2>2
<1>7. \A b \in Attempts :
        /\ body'[b] = "cleaning" <=> body[b] = "cleaning" /\ Op("clean", b) # Head(gate)
        /\ work'[b] = "undoing" <=> work[b] = "undoing" /\ Op("undo", b) # Head(gate)
        /\ work'[b] \in {"opening", "abandoned"} <=> work[b] \in {"opening", "abandoned"}
        /\ body'[b] = "backoff" => work'[b] = "none"
  BY <1>1, <1>4, <1>5, <1>6, OpEq DEF Served, BackoffFresh
<1>8. /\ \A o \in Owners : Op("open", o) # Head(gate)
      /\ Op("prepare", Manual) # Head(gate) /\ Op("fail", Manual) # Head(gate)
  BY <1>1, OpEq
<1> QED BY <1>1, <1>7, <1>8, ServedLeaves

\* The configure and the verification of an attempt end.
LEMMA WorkServes ==
  ASSUME Plain, QueuesOK(gate, mutex), Served, NEW a \in Attempts,
         Configured(a) \/ ConfigureFails(a) \/ Unverified(a) \/ Succeed(a)
  PROVE  Served'
<1>1. gate \in Seq(Operation) /\ From(gate, gate, {}, {})
  BY GateKept DEF Served
<1>2. work[a] \in {"configuring", "verifying"} /\ UNCHANGED <<mutex, manual>>
  BY DEF Configured, ConfigureFails, Unverified, Succeed, aside, driver
<1>3. body[a] # "backoff"
  BY <1>2 DEF Served, BackoffFresh
<1>4. CASE /\ gate' = gate /\ \A b \in Attempts : b # a => body'[b] = body[b]
           /\ body'[a] \in {body[a], "idle"} /\ (body'[a] = body[a] \/ body[a] # "cleaning")
           /\ \A b \in Attempts : work'[b] = work[b]
                \/ (b = a /\ work'[b] \in {"verifying", "none"})
  <2>1. \A b \in Attempts :
          /\ body'[b] = "cleaning" <=> body[b] = "cleaning"
          /\ work'[b] = "undoing" <=> work[b] = "undoing"
          /\ work'[b] \in {"opening", "abandoned"} <=> work[b] \in {"opening", "abandoned"}
          /\ body'[b] = "backoff" => work'[b] = "none"
    BY <1>2, <1>3, <1>4 DEF Served, BackoffFresh
  <2>2. From(gate, gate', {}, {})
    BY <1>1, <1>4
  <2> QED BY <1>2, <2>1, <2>2, ServedSame
<1>5. CASE Succeed(a)
  <2>1. \A b \in Attempts : /\ work'[b] = IF b = a THEN "none" ELSE work[b]
                            /\ body'[b] = IF b = a THEN "idle" ELSE body[b]
    BY <1>5 DEF Succeed, Plain, Places
  <2>2. gate' = gate /\ body[a] # "cleaning"
    BY <1>5 DEF Succeed, Current, driver
  <2> QED BY <1>4, <2>1, <2>2
<1>6. CASE Undo(a, gate)
  <2>1. Op("undo", a) \notin {} /\ work[a] # "undoing"
    BY <1>2
  <2>2. PICK add \in {{}, {Op("undo", a)}} :
           /\ From(gate, gate', {}, {} \cup add)
           /\ \A x \in add : ~Awaits(x)
           /\ body' = body
           /\ \A b \in Attempts :
                /\ work'[b] = "undoing" <=> work[b] = "undoing" \/ Op("undo", b) \in add
                /\ b # a => work'[b] = work[b]
                /\ work'[a] \in {"undoing", "none"}
    BY <1>1, <1>6, <2>1, UndoGate DEF Served
  <2>3. {} \cup add = add
    OBVIOUS
  <2>4. \A k, w : Op(k, w) \in add => k = "undo"
    BY <2>2, OpEq
  <2>5. \A b \in Attempts :
          /\ body'[b] = "cleaning" <=> body[b] = "cleaning" \/ Op("clean", b) \in add
          /\ work'[b] \in {"opening", "abandoned"} <=> work[b] \in {"opening", "abandoned"}
          /\ body'[b] = "backoff" => work'[b] = "none"
    BY <1>2, <1>3, <2>2, <2>4 DEF Served, BackoffFresh
  <2> QED BY <1>2, <2>2, <2>3, <2>4, <2>5, ServedJoins
<1>7. CASE ConfigureFails(a)
  <2>1. \A b \in Attempts : work'[b] = IF b = a THEN "none" ELSE work[b]
    BY <1>7 DEF ConfigureFails, Plain, Places
  <2>2. CASE body[a] # "racing"
    BY <1>4, <1>7, <2>1, <2>2 DEF ConfigureFails
  <2>3. CASE body[a] = "racing"
    <3>1. Catch(a, gate, TRUE) /\ Op("clean", a) \notin {}
      BY <1>7, <2>3 DEF ConfigureFails
    <3>2. PICK add \in {{}, {Op("clean", a)}} :
             /\ From(gate, gate', {}, {} \cup add)
             /\ \A x \in add : ~Awaits(x)
             /\ \A b \in Attempts :
                  /\ body'[b] = "cleaning" <=> body[b] = "cleaning" \/ Op("clean", b) \in add
                  /\ b # a => body'[b] = body[b]
                  /\ body'[b] = "backoff" => body[b] = "backoff"
      BY <1>1, <2>3, <3>1, CatchGate DEF Served
    <3>3. {} \cup add = add
      OBVIOUS
    <3>4. \A k, w : Op(k, w) \in add => k = "clean"
      BY <3>2, OpEq
    <3>5. \A b \in Attempts :
            /\ work'[b] = "undoing" <=> work[b] = "undoing" \/ Op("undo", b) \in add
            /\ work'[b] \in {"opening", "abandoned"} <=> work[b] \in {"opening", "abandoned"}
            /\ body'[b] = "backoff" => work'[b] = "none"
      BY <1>2, <2>1, <3>2, <3>4 DEF Served, BackoffFresh
    <3> QED BY <1>2, <3>2, <3>3, <3>4, <3>5, ServedJoins
  <2> QED BY <2>2, <2>3
<1>8. CASE Configured(a) /\ ~Undo(a, gate)
  <2>1. work' = [work EXCEPT ![a] = "verifying"] /\ UNCHANGED <<body, gate>>
    BY <1>8 DEF Configured
  <2>2. \A b \in Attempts : work'[b] = IF b = a THEN "verifying" ELSE work[b]
    BY <2>1 DEF Plain, Places
  <2> QED BY <1>4, <2>1, <2>2
<1> QED BY <1>5, <1>6, <1>7, <1>8 DEF Unverified

\* The opens that the mutex lets in are opens.
LEMMA NextOpensAre == \A k, w : Op(k, w) \in NextOpens => k = "open"
  BY OpEq DEF NextOpens

\* What changes for those who wait when the open of an attempt is over, and the
\* attempt goes on to wait for a disconnect or for nothing.
LEMMA ServedOver ==
  ASSUME QueuesOK(gate, mutex), Served, NEW a \in Attempts, Heads("open", a),
         mutex' = Tail(mutex), manual' = manual,
         NEW add, From(gate, gate', {Op("open", a)}, NextOpens \cup add),
         \A x \in add : ~Awaits(x),
         \A k, w : Op(k, w) \in add => k \in {"clean", "undo"},
         \A b \in Attempts :
           /\ body'[b] = "cleaning" <=> body[b] = "cleaning" \/ Op("clean", b) \in add
           /\ work'[b] = "undoing" <=> work[b] = "undoing" \/ Op("undo", b) \in add
           /\ b # a => work'[b] = work[b]
           /\ body'[b] = "backoff" => body[b] = "backoff",
         work'[a] \notin {"opening", "abandoned"}
  PROVE  Served'
<1>1. a \in Owners /\ a # Manual
  BY OwnersAssumption DEF Owners
<1>2. /\ mutex # <<>> /\ Head(mutex) = a /\ Opening(a)
      /\ \A x \in NextOpens : ~Awaits(x)
      /\ \A p \in Owners :
           Tail(mutex) # <<>> /\ Head(Tail(mutex)) = p <=>
             \/ mutex # <<>> /\ Head(mutex) = p /\ Op("open", p) \notin {Op("open", a)}
             \/ Op("open", p) \in NextOpens
  BY <1>1, OpenOver DEF Served
<1>3. \A p \in Owners : Opening(p)' <=> Opening(p) /\ p # Head(mutex)
  BY <1>1, <1>2 DEF Opening, Owners
<1>4. MutexServed'
  BY <1>2, <1>3, MutexLeaves DEF Served, QueuesOK
<1>5. To({Op("open", a)}, NextOpens \cup add)
  <2>1. \A o \in Owners :
          (mutex' # <<>> /\ Head(mutex') = o) <=>
            \/ mutex # <<>> /\ Head(mutex) = o /\ Op("open", o) \notin {Op("open", a)}
            \/ Op("open", o) \in NextOpens \cup add
    BY <1>2
  <2>2. \A b \in Attempts :
          /\ body'[b] = "cleaning" <=>
               \/ body[b] = "cleaning" /\ Op("clean", b) \notin {Op("open", a)}
               \/ Op("clean", b) \in NextOpens \cup add
          /\ work'[b] = "undoing" <=>
               \/ work[b] = "undoing" /\ Op("undo", b) \notin {Op("open", a)}
               \/ Op("undo", b) \in NextOpens \cup add
    BY NextOpensAre, OpEq
  <2>3. \A k \in {"prepare", "fail"} :
          Op(k, Manual) \notin {Op("open", a)} /\ Op(k, Manual) \notin NextOpens \cup add
    BY NextOpensAre, OpEq
  <2> HIDE DEF Served
  <2> QED BY <2>1, <2>2, <2>3, ToBy
<1>6. \A x \in NextOpens \cup add : ~Awaits(x)
  BY <1>2
<1>7. GateServed'
  BY <1>5, <1>6, ServedBy DEF Served
<1>8. BackoffFresh'
  BY <1>1, <1>2 DEF Served, BackoffFresh, Opening
<1> QED BY <1>4, <1>7, <1>8 DEF Served

\* The open of an attempt ends.
LEMMA OpensServe ==
  ASSUME Plain, QueuesOK(gate, mutex), Served, NEW a \in Attempts,
         Opened(a) \/ OpenFails(a)
  PROVE  Served'
<1>1. a \in Owners /\ a # Manual
  BY OwnersAssumption DEF Owners
<1>2. Heads("open", a) /\ mutex' = Tail(mutex) /\ manual' = manual
  BY DEF Opened, OpenFails, aside
<1>3. /\ Opening(a) /\ Handover \in Seq(Operation)
      /\ From(gate, Handover, {Op("open", a)}, NextOpens)
  BY <1>1, <1>2, OpenOver DEF Served
<1>4. work[a] \in {"opening", "abandoned"}
  BY <1>1, <1>3 DEF Opening
<1>5. Op("clean", a) \notin NextOpens /\ Op("undo", a) \notin NextOpens
  BY NextOpensAre
<1>6. CASE /\ gate' = Handover /\ body' = body
           /\ \A b \in Attempts : b # a => work'[b] = work[b]
           /\ work'[a] \in {"configuring", "none"}
  <2>1. NextOpens \cup {} = NextOpens
    OBVIOUS
  <2>2. PICK add \in {{}, {Op("undo", a)}} :
           /\ From(gate, gate', {Op("open", a)}, NextOpens \cup add)
           /\ \A x \in add : ~Awaits(x)
           /\ body' = body
           /\ \A b \in Attempts :
                /\ work'[b] = "undoing" <=> work[b] = "undoing" \/ Op("undo", b) \in add
                /\ b # a => work'[b] = work[b]
                /\ work'[a] \in {"configuring", "none"}
    BY <1>3, <1>4, <1>6, <2>1
  <2>3. \A k, w : Op(k, w) \in add => k = "undo"
    BY <2>2, OpEq
  <2> QED BY <1>2, <2>2, <2>3, ServedOver
<1>7. CASE Opened(a) /\ Current(a)
  <2>1. /\ work' = [work EXCEPT ![a] = "configuring"] /\ gate' = Handover
        /\ body' = body
    BY <1>7 DEF Opened
  <2>2. \A b \in Attempts : work'[b] = IF b = a THEN "configuring" ELSE work[b]
    BY <2>1 DEF Plain, Places
  <2> QED BY <1>6, <2>1, <2>2
<1>8. CASE Opened(a) /\ ~Current(a)
  <2>1. Undo(a, Handover)
    BY <1>8 DEF Opened
  <2>2. PICK add \in {{}, {Op("undo", a)}} :
           /\ From(gate, gate', {Op("open", a)}, NextOpens \cup add)
           /\ \A x \in add : ~Awaits(x)
           /\ body' = body
           /\ \A b \in Attempts :
                /\ work'[b] = "undoing" <=> work[b] = "undoing" \/ Op("undo", b) \in add
                /\ b # a => work'[b] = work[b]
                /\ work'[a] \in {"undoing", "none"}
    BY <1>3, <1>4, <1>5, <2>1, UndoGate DEF Served
  <2>3. \A k, w : Op(k, w) \in add => k = "undo"
    BY <2>2, OpEq
  <2> QED BY <1>2, <2>2, <2>3, ServedOver
<1>9. CASE OpenFails(a)
  <2>1. \A b \in Attempts : work'[b] = IF b = a THEN "none" ELSE work[b]
    BY <1>9 DEF OpenFails, Plain, Places
  <2>2. CASE body[a] # "racing"
    BY <1>6, <1>9, <2>1, <2>2 DEF OpenFails
  <2>3. CASE body[a] = "racing"
    <3>1. Catch(a, Handover, FALSE)
      BY <1>9, <2>3 DEF OpenFails
    <3>2. PICK add \in {{}, {Op("clean", a)}} :
             /\ From(gate, gate', {Op("open", a)}, NextOpens \cup add)
             /\ \A x \in add : ~Awaits(x)
             /\ \A b \in Attempts :
                  /\ body'[b] = "cleaning" <=> body[b] = "cleaning" \/ Op("clean", b) \in add
                  /\ b # a => body'[b] = body[b]
                  /\ body'[b] = "backoff" => body[b] = "backoff"
      BY <1>3, <1>5, <2>3, <3>1, CatchGate DEF Served
    <3>3. \A k, w : Op(k, w) \in add => k = "clean"
      BY <3>2, OpEq
    <3>4. \A b \in Attempts :
            work'[b] = "undoing" <=> work[b] = "undoing" \/ Op("undo", b) \in add
      BY <1>4, <2>1, <3>3
    <3> QED BY <1>2, <2>1, <3>2, <3>3, <3>4, ServedOver
  <2> QED BY <2>2, <2>3
<1> QED BY <1>7, <1>8, <1>9

\* What changes for those who wait when the user's connect() goes on, and the
\* attempts do not.
LEMMA ServedManual ==
  ASSUME GateServed, BackoffFresh, UNCHANGED <<body, work>>, MutexServed',
         NEW out, NEW in, From(gate, gate', out, in), \A x \in in : ~Awaits(x),
         \A k, w : Op(k, w) \in out \cup in => k \notin {"clean", "undo"},
         \A o \in Owners :
           (mutex' # <<>> /\ Head(mutex') = o) <=>
             \/ mutex # <<>> /\ Head(mutex) = o /\ Op("open", o) \notin out
             \/ Op("open", o) \in in,
         manual' = "preparing" <=>
           \/ manual = "preparing" /\ Op("prepare", Manual) \notin out
           \/ Op("prepare", Manual) \in in,
         manual' = "failing" <=>
           (manual = "failing" /\ Op("fail", Manual) \notin out) \/ Op("fail", Manual) \in in
  PROVE  Served'
<1>1. \A b \in Attempts :
        /\ body'[b] = "cleaning" <=>
             \/ body[b] = "cleaning" /\ Op("clean", b) \notin out
             \/ Op("clean", b) \in in
        /\ work'[b] = "undoing" <=>
             \/ work[b] = "undoing" /\ Op("undo", b) \notin out
             \/ Op("undo", b) \in in
  OBVIOUS
<1>2. To(out, in)
  BY <1>1, ToBy
<1>3. GateServed'
  BY <1>2, ServedBy
<1> QED BY <1>3 DEF Served, BackoffFresh

\* The user's connect() begins to await its open.
LEMMA PreparedServes ==
  ASSUME QueuesOK(gate, mutex), Served, NEW queue \in Seq(Operation), Prepared(queue),
         manual \in {"idle", "preparing"}, UNCHANGED <<body, work>>,
         \/ manual = "idle" /\ From(gate, queue, {}, {})
         \/ manual = "preparing" /\ From(gate, queue, {Op("prepare", Manual)}, {})
  PROVE  Served'
<1>1. Manual \in Owners /\ Manual \notin Attempts
  BY OwnersAssumption DEF Owners
<1>2. /\ manual' = "opening" /\ mutex' = Append(mutex, Manual)
      /\ gate' = IF mutex = <<>> THEN Append(queue, Op("open", Manual)) ELSE queue
  BY DEF Prepared
<1>3. ~Opening(Manual) /\ \A p \in Owners : Opening(p)' <=> Opening(p) \/ p = Manual
  BY <1>2 DEF Opening
<1>4. MutexServed'
  BY <1>1, <1>2, <1>3, MutexJoins DEF Served, QueuesOK
<1>5. \A k, w : Op(k, w) \in JoinOpens(Manual) => k = "open"
  BY OpEq DEF JoinOpens
<1>6. ASSUME NEW out, out \in {{}, {Op("prepare", Manual)}}, From(gate, queue, out, {}),
             manual = "preparing" => Op("prepare", Manual) \in out
      PROVE  Served'
  <2>1. /\ From(gate, gate', out, JoinOpens(Manual))
        /\ \A x \in JoinOpens(Manual) : ~Awaits(x)
        /\ \A p \in Owners :
             mutex' # <<>> /\ Head(mutex') = p <=>
               \/ mutex # <<>> /\ Head(mutex) = p
               \/ Op("open", p) \in JoinOpens(Manual)
    BY <1>1, <1>2, <1>6, OpenBegins DEF Served
  <2>2. \A k, w : Op(k, w) \in out => k = "prepare"
    BY <1>6, OpEq
  <2>3. \A k, w : Op(k, w) \in out \cup JoinOpens(Manual) => k \notin {"clean", "undo"}
    BY <1>5, <2>2
  <2>4. \A o \in Owners : Op("open", o) \notin out
    BY <2>2
  <2>5. /\ Op("prepare", Manual) \notin JoinOpens(Manual)
        /\ Op("fail", Manual) \notin JoinOpens(Manual)
    BY <1>5
  <2>6. GateServed /\ BackoffFresh
    BY DEF Served
  <2> HIDE DEF Served
  <2> QED BY <1>2, <1>4, <1>6, <2>1, <2>3, <2>4, <2>5, <2>6, ServedManual
<1>7. CASE manual = "idle" /\ From(gate, queue, {}, {})
  BY <1>6, <1>7
<1>8. CASE manual = "preparing" /\ From(gate, queue, {Op("prepare", Manual)}, {})
  BY <1>6, <1>8
<1> QED BY <1>7, <1>8

\* The head of the gate has its waiter.
LEMMA HeadAwaited ==
  ASSUME QueuesOK(gate, mutex), GateServed, NEW k, NEW w, Heads(k, w),
         Op(k, w) \in Awaited
  PROVE  /\ Awaits(Op(k, w)) /\ Tail(gate) \in Seq(Operation)
         /\ From(gate, Tail(gate), {Op(k, w)}, {})
<1>1. gate \in Seq(Operation) /\ gate # <<>> /\ Head(gate) = Op(k, w)
  BY DEF QueuesOK, Heads
<1>2. Stands(Op(k, w), gate)
  BY <1>1, TailStands
<1> QED BY <1>1, <1>2, GateKept DEF GateServed

\* The user's connect() leaves the mutex.
LEMMA ManualOver ==
  ASSUME QueuesOK(gate, mutex), Served, Heads("open", Manual), mutex' = Tail(mutex),
         UNCHANGED <<body, work>>, manual' \in {"configuring", "failing", "failed"},
         NEW add, add \in {{}, {Op("fail", Manual)}},
         manual' = "failing" <=> Op("fail", Manual) \in add,
         From(gate, gate', {Op("open", Manual)}, NextOpens \cup add)
  PROVE  Served'
<1>1. Manual \in Owners /\ Manual \notin Attempts
  BY OwnersAssumption DEF Owners
<1>2. /\ mutex # <<>> /\ Head(mutex) = Manual /\ Opening(Manual)
      /\ \A x \in NextOpens : ~Awaits(x)
      /\ \A p \in Owners :
           Tail(mutex) # <<>> /\ Head(Tail(mutex)) = p <=>
             \/ mutex # <<>> /\ Head(mutex) = p /\ Op("open", p) \notin {Op("open", Manual)}
             \/ Op("open", p) \in NextOpens
  BY <1>1, OpenOver DEF Served
<1>3. manual = "opening"
  BY <1>2 DEF Opening
<1>4. \A p \in Owners : Opening(p)' <=> Opening(p) /\ p # Head(mutex)
  BY <1>2 DEF Opening
<1>5. MutexServed'
  BY <1>2, <1>4, MutexLeaves DEF Served, QueuesOK
<1>6. /\ \A k, w : Op(k, w) \in add => k = "fail"
      /\ \A k, w : Op(k, w) \in {Op("open", Manual)} => k = "open"
  BY OpEq
<1>7. \A x \in NextOpens \cup add : ~Awaits(x)
  BY <1>2, <1>3, AwaitsOf
<1>8. \A k, w : Op(k, w) \in {Op("open", Manual)} \cup (NextOpens \cup add)
        => k \notin {"clean", "undo"}
  BY <1>6, NextOpensAre
<1>9. \A o \in Owners :
        (mutex' # <<>> /\ Head(mutex') = o) <=>
          \/ mutex # <<>> /\ Head(mutex) = o /\ Op("open", o) \notin {Op("open", Manual)}
          \/ Op("open", o) \in NextOpens \cup add
  BY <1>2, <1>6
<1>10. /\ Op("prepare", Manual) \notin NextOpens \cup add
       /\ Op("fail", Manual) \in NextOpens \cup add <=> Op("fail", Manual) \in add
  BY <1>6, NextOpensAre
<1>11. GateServed /\ BackoffFresh
  BY DEF Served
<1> HIDE DEF Served
<1> QED BY <1>3, <1>5, <1>7, <1>8, <1>9, <1>10, <1>11, ServedManual

\* The user's connect(), up to its open.
LEMMA ConnectServes ==
  ASSUME QueuesOK(gate, mutex), Served, Connect \/ ConnectPrepared
  PROVE  Served'
<1>1. gate \in Seq(Operation) /\ From(gate, gate, {}, {}) /\ UNCHANGED <<body, work>>
  BY GateKept DEF Served, Connect, ConnectPrepared, attempt
<1>2. CASE Connect /\ Prepared(gate)
  BY <1>1, <1>2, PreparedServes DEF Connect
<1>3. CASE Connect /\ ~Prepared(gate)
  <2>1. /\ manual = "idle" /\ manual' = "preparing" /\ mutex' = mutex
        /\ gate' = Append(gate, Op("prepare", Manual))
    BY <1>3 DEF Connect
  <2>2. \A o \in Owners : Opening(o)' <=> Opening(o)
    BY <1>1, <2>1 DEF Opening
  <2>3. MutexServed'
    BY <2>1, <2>2, MutexSame DEF Served
  <2>4. Op("prepare", Manual) \in Operation /\ Op("prepare", Manual) \in Awaited
    BY OpTypes, AwaitedAre
  <2>5. PICK in : in = {Op("prepare", Manual)}
    OBVIOUS
  <2>6. /\ From(gate, gate', {}, in) /\ \A x \in in : ~Awaits(x)
    BY <1>1, <2>1, <2>4, <2>5, FromSame, AwaitsOf
  <2>7. \A k, w : Op(k, w) \in in <=> k = "prepare" /\ w = Manual
    BY <2>5, OpEq
  <2>8. GateServed /\ BackoffFresh
    BY DEF Served
  <2>9. PICK out : out = {}
    OBVIOUS
  <2>10. From(gate, gate', out, in) /\ \A k, w : Op(k, w) \notin out
    BY <2>6, <2>9
  <2> QED BY <1>1, <2>1, <2>3, <2>6, <2>7, <2>8, <2>10, ServedManual
<1>4. CASE ConnectPrepared
  <2>1. Heads("prepare", Manual) /\ Op("prepare", Manual) \in Awaited /\ Prepared(Tail(gate))
    BY <1>4, AwaitedAre DEF ConnectPrepared
  <2>2. /\ manual = "preparing" /\ Tail(gate) \in Seq(Operation)
        /\ From(gate, Tail(gate), {Op("prepare", Manual)}, {})
    BY <2>1, HeadAwaited, AwaitsOf DEF Served
  <2> QED BY <1>1, <2>1, <2>2, PreparedServes
<1> QED BY <1>2, <1>3, <1>4

\* The end of its open, and of what comes after.
LEMMA ConnectEndsServe ==
  ASSUME QueuesOK(gate, mutex), Served, ConnectOpened \/ ConnectDone \/ ConnectFails
  PROVE  Served'
<1>1. gate \in Seq(Operation) /\ From(gate, gate, {}, {}) /\ UNCHANGED <<body, work>>
  BY GateKept DEF Served, ConnectOpened, ConnectDone, ConnectFails, attempt
<1>2. Op("fail", Manual) \in Operation /\ Op("fail", Manual) \in Awaited
  BY OpTypes, AwaitedAre
<1>3. ASSUME Heads("open", Manual)
      PROVE  /\ Handover \in Seq(Operation) /\ manual = "opening"
             /\ From(gate, Handover, {Op("open", Manual)}, NextOpens \cup {})
             /\ Op("fail", Manual) \notin NextOpens \cup {}
  <2>1. Manual \in Owners /\ NextOpens \cup {} = NextOpens
    BY DEF Owners
  <2> QED BY <1>3, <2>1, OpenOver, NextOpensAre DEF Served, Opening
<1>4. CASE ConnectDone
  <2>1. /\ UNCHANGED <<gate, mutex>>
        /\ \A w \in {"opening", "preparing", "failing"} : manual' = w <=> manual = w
    BY <1>4 DEF ConnectDone, driver
  <2>2. \A a \in Attempts : body[a] = "backoff" => work[a] = "none"
    BY DEF Served, BackoffFresh
  <2> QED BY <1>1, <2>1, <2>2, ServedSame
<1>5. CASE ConnectOpened
  <2>1. /\ Heads("open", Manual) /\ mutex' = Tail(mutex) /\ gate' = Handover
        /\ manual' = "configuring"
    BY <1>5 DEF ConnectOpened
  <2>2. PICK add \in {{}, {Op("fail", Manual)}} : add = {}
    OBVIOUS
  <2>3. /\ From(gate, gate', {Op("open", Manual)}, NextOpens \cup add)
        /\ manual' = "failing" <=> Op("fail", Manual) \in add
    BY <1>3, <2>1, <2>2
  <2> QED BY <1>1, <2>1, <2>3, ManualOver
<1>6. CASE /\ Heads("open", Manual) /\ mutex' = Tail(mutex)
           /\ manual' = IF pending THEN "failing" ELSE "failed"
           /\ gate' = IF pending THEN Append(Handover, Op("fail", Manual)) ELSE Handover
  <2>1. ~Stands(Op("fail", Manual), gate)
    BY <1>2, <1>3, <1>6, AwaitsOf DEF Served, GateServed
  <2>2. From(gate, Append(Handover, Op("fail", Manual)), {Op("open", Manual)},
             (NextOpens \cup {}) \cup {Op("fail", Manual)})
    BY <1>2, <1>3, <1>6, <2>1, FromThen
  <2>3. (NextOpens \cup {}) \cup {Op("fail", Manual)} = NextOpens \cup {Op("fail", Manual)}
    OBVIOUS
  <2>4. PICK add \in {{}, {Op("fail", Manual)}} :
          add = IF pending THEN {Op("fail", Manual)} ELSE {}
    OBVIOUS
  <2>5. /\ From(gate, gate', {Op("open", Manual)}, NextOpens \cup add)
        /\ manual' = "failing" <=> Op("fail", Manual) \in add
        /\ manual' \in {"configuring", "failing", "failed"}
    BY <1>3, <1>6, <2>2, <2>3, <2>4
  <2> QED BY <1>1, <1>6, <2>5, ManualOver
<1>7. CASE /\ manual = "configuring" /\ manual' = "failing" /\ mutex' = mutex
           /\ gate' = Append(gate, Op("fail", Manual))
  <2>1. \A o \in Owners : Opening(o)' <=> Opening(o)
    BY <1>1, <1>7 DEF Opening
  <2>2. MutexServed'
    BY <1>7, <2>1, MutexSame DEF Served
  <2>3. PICK in : in = {Op("fail", Manual)}
    OBVIOUS
  <2>4. /\ From(gate, gate', {}, in) /\ \A x \in in : ~Awaits(x)
    BY <1>1, <1>2, <1>7, <2>3, FromSame, AwaitsOf
  <2>5. \A k, w : Op(k, w) \in in <=> k = "fail" /\ w = Manual
    BY <2>3, OpEq
  <2>6. GateServed /\ BackoffFresh
    BY DEF Served
  <2>7. PICK out : out = {}
    OBVIOUS
  <2>8. From(gate, gate', out, in) /\ \A k, w : Op(k, w) \notin out
    BY <2>4, <2>7
  <2> QED BY <1>1, <1>7, <2>2, <2>4, <2>5, <2>6, <2>8, ServedManual
<1> QED BY <1>4, <1>5, <1>6, <1>7 DEF ConnectFails

\* What the rest of a failed connect() leaves of the gate.
LEMMA FailureGate ==
  ASSUME NEW queue \in Seq(Operation), FailureEnds(queue),
         NEW out, NEW in, From(gate, queue, out, in)
  PROVE  From(gate, gate', out, in)
<1>1. CASE gate' = queue
  BY <1>1
<1>2. CASE Lost(FALSE, queue, known)
  BY <1>2, LostGate
<1> QED BY <1>1, <1>2 DEF FailureEnds

\* The rest of a failed connect().
LEMMA FailedServes ==
  ASSUME QueuesOK(gate, mutex), Served, ConnectFailed
  PROVE  Served'
<1>1. gate \in Seq(Operation) /\ From(gate, gate, {}, {})
  BY GateKept DEF Served
<1>2. UNCHANGED <<body, work, mutex>> /\ manual' = "idle"
  BY DEF ConnectFailed, FailureEnds, attempt
<1>3. CASE Heads("fail", Manual) /\ FailureEnds(Tail(gate))
  <2>1. Op("fail", Manual) \in Awaited
    BY AwaitedAre
  <2>2. /\ manual = "failing" /\ Tail(gate) \in Seq(Operation)
        /\ From(gate, Tail(gate), {Op("fail", Manual)}, {})
    BY <1>3, <2>1, HeadAwaited, AwaitsOf DEF Served
  <2>3. PICK out : out = {Op("fail", Manual)}
    OBVIOUS
  <2>4. PICK in : in = {}
    OBVIOUS
  <2>5. From(gate, gate', out, in)
    BY <1>3, <2>2, <2>3, <2>4, FailureGate
  <2>6. \A o \in Owners : Opening(o)' <=> Opening(o)
    BY <1>2, <2>2 DEF Opening
  <2>7. MutexServed'
    BY <1>2, <2>6, MutexSame DEF Served
  <2>8. \A k, w : Op(k, w) \in out <=> k = "fail" /\ w = Manual
    BY <2>3, OpEq
  <2>9. GateServed /\ BackoffFresh
    BY DEF Served
  <2> QED BY <1>2, <2>2, <2>4, <2>5, <2>7, <2>8, <2>9, ServedManual
<1>4. CASE manual = "failed" /\ FailureEnds(gate)
  <2>1. From(gate, gate', {}, {})
    BY <1>1, <1>4, FailureGate
  <2>2. \A a \in Attempts : body[a] = "backoff" => work[a] = "none"
    BY DEF Served, BackoffFresh
  <2> QED BY <1>2, <1>4, <2>1, <2>2, ServedSame
<1> QED BY <1>3, <1>4 DEF ConnectFailed

\* The user's disconnect has no waiter.
LEMMA DisconnectServes ==
  ASSUME QueuesOK(gate, mutex), Served, Disconnect \/ Disconnected
  PROVE  Served'
<1>1. Op("user", Manual) \in Operation /\ Op("user", Manual) \notin Awaited
  BY UnawaitedAre
<1>2. gate \in Seq(Operation) /\ From(gate, gate, {}, {})
  BY GateKept DEF Served
<1>3. UNCHANGED <<body, work, manual, mutex>>
  BY DEF Disconnect, Disconnected, Queues, Closes, driver, attempt
<1>4. From(gate, gate', {}, {})
  <2>1. CASE Disconnect
    <3>1. gate' = gate \/ gate' = Append(gate, Op("user", Manual))
      BY <2>1 DEF Disconnect, Queues, driver
    <3> QED BY <1>1, <1>2, <3>1, FromThenUnawaited
  <2>2. CASE Disconnected
    <3>1. gate # <<>> /\ Head(gate) = Op("user", Manual) /\ gate' = Tail(gate)
      BY <2>2 DEF Disconnected, Heads, Closes
    <3> QED BY <1>1, <3>1, GateKept DEF Served
  <2> QED BY <2>1, <2>2
<1> QED BY <1>3, <1>4, ServedAlone

-----------------------------------------------------------------------------
\* Every step serves those who wait.
LEMMA ServedStep ==
  ASSUME Plain, QueuesOK(gate, mutex), Served, [Next]_vars
  PROVE  Served'
<1>1. CASE UNCHANGED vars
  <2>1. UNCHANGED <<body, work, manual, mutex, gate>>
    BY <1>1 DEF vars
  <2>2. From(gate, gate', {}, {})
    BY <2>1, GateKept DEF Served
  <2> QED BY <2>1, <2>2, ServedAlone
<1>2. CASE Events
  BY <1>2, EventsServe
<1>3. ASSUME NEW t \in Losses, NEW n \in BOOLEAN, Parted(t, n) \/ LossTail(t)
      PROVE  Served'
  BY <1>3, LossesServe
<1>4. CASE Owner
  BY <1>4, OwnerServes
<1>5. ASSUME NEW a \in Attempts, AttemptStep(a) PROVE Served'
  BY <1>5, BackoffServes, DeadlineServes, CleanedServes, UndoneServes, WorkServes,
     OpensServe
  DEF AttemptStep
<1>6. CASE User
  BY <1>6, ConnectServes, ConnectEndsServe, FailedServes, DisconnectServes DEF User
<1> QED BY <1>1, <1>2, <1>3, <1>4, <1>5, <1>6 DEF Next

\* At first nobody waits.
LEMMA ServedFirst == Init => Served
<1> SUFFICES ASSUME Init PROVE Served
  OBVIOUS
<1>1. /\ mutex = <<>> /\ gate = <<>> /\ manual = "idle"
      /\ \A a \in Attempts : body[a] = "idle" /\ work[a] = "none"
  BY DEF Init
<1>2. \A x : ~Stands(x, <<>>) /\ Single(x, <<>>)
  BY DEF Stands, Single
<1>3. \A o \in Owners : ~Opening(o)
  BY <1>1 DEF Opening, Owners
<1>4. \A x \in Awaited : ~Awaits(x)
  BY <1>1, AwaitedAre, AwaitsOf
<1> QED
  BY <1>1, <1>2, <1>3, <1>4 DEF Served, MutexServed, GateServed, BackoffFresh

\* Nobody waits in vain for the driver, and nothing the driver does is without
\* its waiter: who awaits an open stands in the mutex once, and who awaits an
\* operation has it in the lifecycle gate once, in every interleaving of losses,
\* deadlines, late opens, undos and calls of the user.
THEOREM QueuesCorrect == Spec => []QueuesServeWaiters
<1>1. Init => Served
  BY ServedFirst
<1>2. Typed /\ Served /\ [Next]_vars => Served'
  BY ServedStep DEF Typed
<1>3. Served => QueuesServeWaiters
  BY DEF Served, MutexServed, GateServed, QueuesServeWaiters
<1> QED BY <1>1, <1>2, <1>3, TypedAlways, PTL DEF Spec
=============================================================================
