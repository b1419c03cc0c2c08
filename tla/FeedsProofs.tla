----------------------------- MODULE FeedsProofs -----------------------------
(***************************************************************************)
(* Proofs about the feeds, for any number of clients, channels of any size *)
(* and any logs: the types, that a client that is fast enough misses       *)
(* nothing, and that the feeds implement FeedSpec.                         *)
(*                                                                         *)
(* FeedSpec delivers only events after the last one the client got.  That  *)
(* the head of a channel is one of those needs the order of the whole      *)
(* channel: InvOrder.                                                      *)
(***************************************************************************)
EXTENDS Feeds, TLAPS, SequenceTheorems

Seen == [c \in Clients |-> IF stream[c] = "idle" THEN <<>> ELSE got[c]]

Bounded(c) == LastGot(c) <= count[FeedOf[c]]
InOrderOf(c) ==
    /\ \A i \in 1 .. Len(queue[c]) : LastGot(c) < queue[c][i] /\ queue[c][i] <= count[FeedOf[c]]
    /\ \A i, j \in 1 .. Len(queue[c]) : i < j => queue[c][i] < queue[c][j]

\* The channel of a client holds events after the last one the client got, in order.
InvOrder ==
    \A c \in Clients : stream[c] # "idle" => Bounded(c) /\ InOrderOf(c)

Shape ==
    /\ count \in [FeedNames -> Nat]
    /\ stream \in [Clients -> Streams]
    /\ queue \in [Clients -> Seq(Nat)]
    /\ got \in [Clients -> Seq(Nat)]
    /\ missed \in [Clients -> BOOLEAN]
    /\ running \in BOOLEAN /\ panicked \in BOOLEAN
    /\ \A c \in Clients : got[c] # <<>> /\ Len(queue[c]) <= QueueSize

Made ==
    /\ made \in 0 .. MaxLogs
    /\ pending \subseteq [id : 0 .. MaxLogs, log : LogKinds, told : BOOLEAN]

IInv == Shape /\ Made /\ InvOrder /\ NothingMissed
------------------------------------------------------------------------------
\* What the operations on a channel do.

LEMMA AppendFacts ==
    ASSUME NEW s \in Seq(Nat), NEW x \in Nat
    PROVE  /\ Append(s, x) \in Seq(Nat) /\ Append(s, x) # <<>>
           /\ Len(Append(s, x)) = Len(s) + 1
           /\ \A i \in 1 .. Len(s) : Append(s, x)[i] = s[i]
           /\ Append(s, x)[Len(s) + 1] = x
  OBVIOUS

LEMMA TailFacts ==
    ASSUME NEW s \in Seq(Nat), s # <<>>
    PROVE  /\ Tail(s) \in Seq(Nat)
           /\ Head(s) = s[1] /\ Head(s) \in Nat
           /\ Len(s) \in Nat \ {0}
           /\ Len(Tail(s)) = Len(s) - 1
           /\ \A i \in 1 .. Len(s) - 1 : Tail(s)[i] = s[i + 1]
  OBVIOUS

\* The last event a client got is a number.
LEMMA LastGotNat ==
    ASSUME Shape, NEW c \in Clients
    PROVE  LastGot(c) \in Nat /\ Len(got[c]) \in Nat \ {0}
  BY DEF Shape, LastGot

------------------------------------------------------------------------------
\* A broadcast that panics changes no channel.
LEMMA PanicStep ==
    ASSUME Shape, InvOrder, NothingMissed, panicked' = TRUE,
           UNCHANGED <<count, stream, queue, got, missed, running>>
    PROVE  Shape' /\ InvOrder' /\ NothingMissed'
  BY DEF Shape, InvOrder, NothingMissed, Bounded, InOrderOf, LastGot

\* A broadcast puts the event after all the others of a channel, or loses it.
LEMMA BroadcastStep ==
    ASSUME Shape, InvOrder, NothingMissed, NEW f \in FeedNames, Broadcast(f),
           UNCHANGED <<stream, got, running>>
    PROVE  Shape' /\ InvOrder' /\ NothingMissed'
  <1>1. CASE \E c \in Structs(f) : stream[c] = "closed"
    BY <1>1, PanicStep DEF Broadcast
  <1>2. CASE ~ \E c \in Structs(f) : stream[c] = "closed"
    <2>1. /\ count' = [count EXCEPT ![f] = @ + 1]
          /\ queue' = [c \in Clients |-> Sent(c, f)]
          /\ missed' = [c \in Clients |-> missed[c] \/ (c \in Structs(f) /\ Len(queue[c]) = QueueSize)]
          /\ panicked' = panicked
      BY <1>2 DEF Broadcast
    <2>2. count' \in [FeedNames -> Nat] /\ \A g \in FeedNames : count'[g] = IF g = f THEN count[g] + 1 ELSE count[g]
      BY <2>1 DEF Shape
    <2>3. ASSUME NEW c \in Clients
          PROVE  /\ FeedOf[c] \in FeedNames
                 /\ queue[c] \in Seq(Nat) /\ Len(queue[c]) \in Nat
                 /\ count[FeedOf[c]] \in Nat /\ count[f] \in Nat
                 /\ LastGot(c) \in Nat /\ LastGot(c)' = LastGot(c)
                 /\ QueueSize \in Nat
      BY LastGotNat, FeedsAssumption DEF Shape, LastGot
    <2>4. ASSUME NEW c \in Clients, c \in Structs(f), Len(queue[c]) < QueueSize
          PROVE  /\ queue'[c] = Append(queue[c], count[f] + 1)
                 /\ FeedOf[c] = f /\ stream[c] # "idle"
      BY <2>1, <2>4 DEF Sent, Structs
    <2>5. ASSUME NEW c \in Clients, ~(c \in Structs(f) /\ Len(queue[c]) < QueueSize)
          PROVE  queue'[c] = queue[c]
      BY <2>1, <2>5 DEF Sent
    <2>6. Shape'
      <3>1. ASSUME NEW c \in Clients PROVE queue'[c] \in Seq(Nat) /\ Len(queue'[c]) <= QueueSize
        <4>1. CASE c \in Structs(f) /\ Len(queue[c]) < QueueSize
          <5>1. count[f] + 1 \in Nat
            BY <2>3
          <5>2. /\ Append(queue[c], count[f] + 1) \in Seq(Nat)
                /\ Len(Append(queue[c], count[f] + 1)) = Len(queue[c]) + 1
            BY <5>1, <2>3, AppendFacts
          <5>3. queue'[c] = Append(queue[c], count[f] + 1)
            BY <4>1, <2>4
          <5>4. Len(queue[c]) \in Nat /\ QueueSize \in Nat
            BY <2>3
          <5> QED
            BY <4>1, <5>2, <5>3, <5>4
        <4>2. CASE ~(c \in Structs(f) /\ Len(queue[c]) < QueueSize)
          BY <4>2, <2>5 DEF Shape
        <4> QED BY <4>1, <4>2
      <3>2. missed' \in [Clients -> BOOLEAN]
        BY <2>1 DEF Shape
      <3> QED
        BY <3>1, <3>2, <2>1, <2>2 DEF Shape
    <2>7. InvOrder'
      <3>1. SUFFICES ASSUME NEW c \in Clients, stream[c] # "idle" PROVE Bounded(c)' /\ InOrderOf(c)'
        BY DEF InvOrder
      <3>2. Bounded(c) /\ InOrderOf(c)
        BY <3>1 DEF InvOrder
      <3>3. count[FeedOf[c]] <= count'[FeedOf[c]]
        BY <2>2, <2>3
      <3>4. Bounded(c)'
        BY <3>2, <3>3, <2>2, <2>3 DEF Bounded
      <3>5. CASE c \in Structs(f) /\ Len(queue[c]) < QueueSize
        <4>1. count'[FeedOf[c]] = count[FeedOf[c]] + 1 /\ FeedOf[c] = f
          BY <3>5, <2>2, <2>4, <2>3
        <4>2. Len(queue'[c]) = Len(queue[c]) + 1
          BY <3>5, <2>3, <2>4, AppendFacts
        <4>3. \A i \in 1 .. Len(queue[c]) : queue'[c][i] = queue[c][i] /\ queue[c][i] \in Nat
          BY <3>5, <2>3, <2>4, AppendFacts
        <4>4. queue'[c][Len(queue[c]) + 1] = count[FeedOf[c]] + 1
          BY <3>5, <2>3, <2>4, AppendFacts
        <4>5. \A i \in 1 .. Len(queue'[c]) : i \in 1 .. Len(queue[c]) \/ i = Len(queue[c]) + 1
          BY <4>2, <2>3
        <4>6. ASSUME NEW i \in 1 .. Len(queue'[c])
              PROVE  LastGot(c) < queue'[c][i] /\ queue'[c][i] <= count'[FeedOf[c]]
          <5>1. CASE i \in 1 .. Len(queue[c])
            <6>1. LastGot(c) < queue[c][i] /\ queue[c][i] <= count[FeedOf[c]]
              BY <5>1, <3>2 DEF InOrderOf
            <6>2. count[FeedOf[c]] \in Nat /\ queue'[c][i] = queue[c][i] /\ queue[c][i] \in Nat
              BY <5>1, <4>3, <2>3
            <6> QED BY <6>1, <6>2, <4>1
          <5>2. CASE i = Len(queue[c]) + 1
            BY <5>2, <3>2, <4>1, <4>4, <2>3 DEF Bounded
          <5> QED BY <5>1, <5>2, <4>5
        <4>7. ASSUME NEW i \in 1 .. Len(queue'[c]), NEW j \in 1 .. Len(queue'[c]), i < j
              PROVE  queue'[c][i] < queue'[c][j]
          <5>1. i \in 1 .. Len(queue[c])
            BY <4>2, <4>7, <2>3
          <5>2. CASE j \in 1 .. Len(queue[c])
            BY <5>1, <5>2, <3>2, <4>3, <4>7 DEF InOrderOf
          <5>3. CASE j = Len(queue[c]) + 1
            <6>1. queue[c][i] <= count[FeedOf[c]]
              BY <5>1, <3>2 DEF InOrderOf
            <6>2. /\ count[FeedOf[c]] \in Nat /\ queue'[c][i] = queue[c][i] /\ queue[c][i] \in Nat
                  /\ queue'[c][j] = count[FeedOf[c]] + 1
              BY <5>1, <5>3, <4>3, <4>4, <2>3
            <6> QED BY <6>1, <6>2
          <5> QED BY <5>2, <5>3, <4>5
        <4> QED
          BY <3>4, <4>6, <4>7, <2>3 DEF InOrderOf
      <3>6. CASE ~(c \in Structs(f) /\ Len(queue[c]) < QueueSize)
        <4>1. queue'[c] = queue[c] /\ \A i \in 1 .. Len(queue[c]) : queue[c][i] \in Nat
          BY <3>6, <2>5, <2>3
        <4> QED
          BY <3>2, <3>3, <3>4, <4>1, <2>2, <2>3 DEF InOrderOf
      <3> QED BY <3>5, <3>6
    <2>8. NothingMissed'
      <3>1. SUFFICES ASSUME NEW c \in Clients, stream[c] = "open", ~missed'[c]
                     PROVE  /\ Len(queue'[c]) = count'[FeedOf[c]] - LastGot(c)
                            /\ \A i \in 1 .. Len(queue'[c]) : queue'[c][i] = LastGot(c) + i
        BY <2>3 DEF NothingMissed
      <3>2. ~missed[c] /\ ~(c \in Structs(f) /\ Len(queue[c]) = QueueSize)
        BY <3>1, <2>1
      <3>3. /\ Len(queue[c]) = count[FeedOf[c]] - LastGot(c)
            /\ \A i \in 1 .. Len(queue[c]) : queue[c][i] = LastGot(c) + i
        BY <3>1, <3>2 DEF NothingMissed
      <3>4. CASE FeedOf[c] = f
        <4>1. c \in Structs(f) /\ Len(queue[c]) < QueueSize
          BY <3>1, <3>2, <3>4, <2>3 DEF Structs, Shape
        <4>2. /\ Len(queue'[c]) = Len(queue[c]) + 1
              /\ \A i \in 1 .. Len(queue[c]) : queue'[c][i] = queue[c][i]
              /\ queue'[c][Len(queue[c]) + 1] = count[f] + 1
          <5>1. queue'[c] = Append(queue[c], count[f] + 1)
            BY <4>1, <2>4
          <5>2. queue[c] \in Seq(Nat) /\ count[f] + 1 \in Nat
            BY <2>3
          <5> QED BY <5>1, <5>2, AppendFacts
        <4>3. count'[FeedOf[c]] = count[f] + 1
          BY <3>4, <2>2, <2>3
        <4>4. \A i \in 1 .. Len(queue'[c]) : i \in 1 .. Len(queue[c]) \/ i = Len(queue[c]) + 1
          BY <4>2, <2>3
        <4>5. count[f] + 1 = LastGot(c) + (Len(queue[c]) + 1) /\ count[f] = count[FeedOf[c]]
          BY <3>3, <3>4, <2>3
        <4>6. Len(queue'[c]) = count'[FeedOf[c]] - LastGot(c)
          BY <3>3, <3>4, <4>2, <4>3, <2>3
        <4>7. ASSUME NEW i \in 1 .. Len(queue'[c]) PROVE queue'[c][i] = LastGot(c) + i
          <5>1. CASE i \in 1 .. Len(queue[c])
            BY <5>1, <3>3, <4>2
          <5>2. CASE i = Len(queue[c]) + 1
            BY <5>2, <4>2, <4>5
          <5> QED BY <5>1, <5>2, <4>4
        <4> QED
          BY <4>6, <4>7
      <3>5. CASE FeedOf[c] # f
        <4>1. queue'[c] = queue[c] /\ count'[FeedOf[c]] = count[FeedOf[c]]
          BY <3>5, <2>2, <2>3, <2>5 DEF Structs
        <4> QED
          BY <3>3, <4>1
      <3> QED BY <3>4, <3>5
    <2> QED
      BY <2>6, <2>7, <2>8
  <1> QED
    BY <1>1, <1>2

\* The other clients of a step that concerns one client.
Others(c) ==
    \A d \in Clients \ {c} :
        stream'[d] = stream[d] /\ queue'[d] = queue[d] /\ got'[d] = got[d] /\ missed'[d] = missed[d]

LEMMA OneClient ==
    ASSUME InvOrder, NothingMissed, NEW c \in Clients, Others(c), count' = count,
           stream'[c] # "idle" => Bounded(c)' /\ InOrderOf(c)',
           stream'[c] = "open" /\ ~missed'[c] =>
               /\ Len(queue'[c]) = count'[FeedOf[c]] - LastGot(c)'
               /\ \A i \in 1 .. Len(queue'[c]) : queue'[c][i] = LastGot(c)' + i
    PROVE  InvOrder' /\ NothingMissed'
  <1>1. ASSUME NEW d \in Clients, d # c, stream'[d] # "idle" PROVE Bounded(d)' /\ InOrderOf(d)'
    BY <1>1 DEF Others, InvOrder, Bounded, InOrderOf, LastGot
  <1>2. ASSUME NEW d \in Clients, d # c, stream'[d] = "open" /\ ~missed'[d]
        PROVE  /\ Len(queue'[d]) = count'[FeedOf[d]] - LastGot(d)'
               /\ \A i \in 1 .. Len(queue'[d]) : queue'[d][i] = LastGot(d)' + i
    BY <1>2 DEF Others, NothingMissed, LastGot
  <1>3. InvOrder'
    BY <1>1 DEF InvOrder
  <1>4. NothingMissed'
    BY <1>2 DEF NothingMissed
  <1> QED
    BY <1>3, <1>4

LEMMA SubscribedStep ==
    ASSUME IInv, NEW c \in Clients, Subscribed(c)
    PROVE  IInv'
  <1>1. /\ stream' = [stream EXCEPT ![c] = IF running THEN "open" ELSE "closing"]
        /\ queue' = [queue EXCEPT ![c] = <<>>]
        /\ got' = [got EXCEPT ![c] = <<count[FeedOf[c]]>>]
        /\ missed' = [missed EXCEPT ![c] = FALSE]
        /\ UNCHANGED <<pending, made, count, running, panicked>>
    BY DEF Subscribed
  <1>2. FeedOf[c] \in FeedNames /\ count[FeedOf[c]] \in Nat /\ QueueSize \in Nat
    BY FeedsAssumption DEF IInv, Shape
  <1>3. /\ queue'[c] = <<>> /\ Len(queue'[c]) = 0
        /\ got'[c] = <<count[FeedOf[c]]>> /\ LastGot(c)' = count[FeedOf[c]]
        /\ missed'[c] = FALSE
    BY <1>1 DEF LastGot, IInv, Shape
  <1>4. Shape'
    <2>1. <<count[FeedOf[c]]>> \in Seq(Nat) /\ <<count[FeedOf[c]]>> # <<>>
      BY <1>2
    <2>2. stream' \in [Clients -> Streams] /\ missed' \in [Clients -> BOOLEAN]
      BY <1>1 DEF IInv, Shape, Streams
    <2>3. queue' \in [Clients -> Seq(Nat)] /\ got' \in [Clients -> Seq(Nat)]
      BY <1>1, <2>1 DEF IInv, Shape
    <2>4. \A d \in Clients : got'[d] # <<>> /\ Len(queue'[d]) <= QueueSize
      BY <1>1, <1>2, <1>3, <2>1 DEF IInv, Shape
    <2> QED
      BY <1>1, <2>2, <2>3, <2>4 DEF IInv, Shape
  <1>5. Others(c)
    BY <1>1 DEF Others, IInv, Shape
  <1>6. Bounded(c)' /\ InOrderOf(c)'
    BY <1>1, <1>2, <1>3 DEF Bounded, InOrderOf
  <1>7. Len(queue'[c]) = count'[FeedOf[c]] - LastGot(c)' /\ 1 .. Len(queue'[c]) = {}
    BY <1>1, <1>2, <1>3
  <1>8. InvOrder' /\ NothingMissed'
    BY <1>1, <1>5, <1>6, <1>7, OneClient DEF IInv
  <1> QED
    BY <1>1, <1>4, <1>8 DEF IInv, Made

\* The event a stream sends is the next one: what is left in the channel comes after it.
LEMMA SendStep ==
    ASSUME IInv, NEW c \in Clients, Send(c)
    PROVE  /\ IInv'
           /\ Head(queue[c]) \in (LastGot(c) + 1) .. count[FeedOf[c]]
  <1>0. stream[c] = "open" /\ queue[c] # <<>> /\ queue[c] \in Seq(Nat) /\ got[c] \in Seq(Nat) /\ got[c] # <<>>
    BY DEF Send, Receives, IInv, Shape
  <1>1. /\ queue' = [queue EXCEPT ![c] = Tail(@)]
        /\ UNCHANGED <<pending, made, count, missed, running, panicked>>
        /\ stream' \in {[stream EXCEPT ![c] = "open"], [stream EXCEPT ![c] = "closing"]}
        /\ \/ got' = [got EXCEPT ![c] = Append(@, Head(queue[c]))]
           \/ got' = got /\ stream' = [stream EXCEPT ![c] = "closing"]
    BY DEF Send, Taken
  <1>2. FeedOf[c] \in FeedNames /\ count[FeedOf[c]] \in Nat /\ LastGot(c) \in Nat
    BY FeedsAssumption, LastGotNat DEF IInv, Shape
  <1>3. /\ Tail(queue[c]) \in Seq(Nat)
        /\ Head(queue[c]) = queue[c][1] /\ Head(queue[c]) \in Nat
        /\ Len(queue[c]) \in Nat \ {0}
        /\ Len(Tail(queue[c])) = Len(queue[c]) - 1
        /\ \A i \in 1 .. Len(queue[c]) - 1 : Tail(queue[c])[i] = queue[c][i + 1]
    BY <1>0, TailFacts
  <1>4. queue'[c] = Tail(queue[c])
    BY <1>1 DEF IInv, Shape
  <1>5. Bounded(c) /\ InOrderOf(c)
    BY <1>0 DEF IInv, InvOrder
  <1>6. Head(queue[c]) \in (LastGot(c) + 1) .. count[FeedOf[c]]
    BY <1>2, <1>3, <1>5 DEF InOrderOf
  <1>7. /\ Append(got[c], Head(queue[c])) \in Seq(Nat) /\ Append(got[c], Head(queue[c])) # <<>>
        /\ Append(got[c], Head(queue[c]))[Len(Append(got[c], Head(queue[c])))] = Head(queue[c])
    BY <1>0, <1>3, AppendFacts
  <1>8. Shape'
    <2>1. stream' \in [Clients -> Streams]
      BY <1>1 DEF IInv, Shape, Streams
    <2>2. got' \in [Clients -> Seq(Nat)] /\ \A d \in Clients : got'[d] # <<>>
      BY <1>1, <1>7 DEF IInv, Shape
    <2>3. queue' \in [Clients -> Seq(Nat)]
      BY <1>1, <1>3 DEF IInv, Shape
    <2>4. \A d \in Clients : Len(queue'[d]) <= QueueSize
      BY <1>1, <1>3, <1>4, FeedsAssumption DEF IInv, Shape
    <2> QED
      BY <1>1, <2>1, <2>2, <2>3, <2>4 DEF IInv, Shape
  <1>9. Others(c)
    BY <1>1 DEF Others, IInv, Shape
  <1>10. LastGot(c)' = Head(queue[c]) \/ (LastGot(c)' = LastGot(c) /\ stream'[c] = "closing")
    BY <1>1, <1>7 DEF LastGot, IInv, Shape
  <1>11. \A i \in 1 .. Len(queue'[c]) : queue'[c][i] = queue[c][i + 1] /\ i + 1 \in 1 .. Len(queue[c])
    BY <1>3, <1>4
  <1>12. Bounded(c)' /\ InOrderOf(c)'
    <2>1. Bounded(c)'
      BY <1>1, <1>2, <1>5, <1>6, <1>10 DEF Bounded
    <2>2. ASSUME NEW i \in 1 .. Len(queue'[c])
          PROVE  LastGot(c)' < queue'[c][i] /\ queue'[c][i] <= count'[FeedOf[c]]
      <3>1. i + 1 \in 1 .. Len(queue[c]) /\ queue'[c][i] = queue[c][i + 1] /\ 1 \in 1 .. Len(queue[c]) /\ 1 < i + 1
        <4>1. i + 1 \in 1 .. Len(queue[c]) /\ queue'[c][i] = queue[c][i + 1]
          BY <1>11
        <4>2. i \in Nat /\ i >= 1
          OBVIOUS
        <4> QED BY <4>1, <4>2
      <3>2. LastGot(c) < queue[c][i + 1] /\ queue[c][i + 1] <= count[FeedOf[c]] /\ queue[c][1] < queue[c][i + 1]
        BY <3>1, <1>5 DEF InOrderOf
      <3> QED
        BY <3>1, <3>2, <1>1, <1>3, <1>10
    <2>3. ASSUME NEW i \in 1 .. Len(queue'[c]), NEW j \in 1 .. Len(queue'[c]), i < j
          PROVE  queue'[c][i] < queue'[c][j]
      <3>1. i + 1 \in 1 .. Len(queue[c]) /\ j + 1 \in 1 .. Len(queue[c]) /\ i + 1 < j + 1
        BY <2>3, <1>11
      <3> QED
        BY <3>1, <1>5, <1>11 DEF InOrderOf
    <2> QED
      BY <2>1, <2>2, <2>3 DEF InOrderOf
  <1>13. ASSUME stream'[c] = "open", ~missed'[c]
         PROVE  /\ Len(queue'[c]) = count'[FeedOf[c]] - LastGot(c)'
                /\ \A i \in 1 .. Len(queue'[c]) : queue'[c][i] = LastGot(c)' + i
    <2>1. LastGot(c)' = Head(queue[c]) /\ ~missed[c]
      BY <1>13, <1>10, <1>1
    <2>2. /\ Len(queue[c]) = count[FeedOf[c]] - LastGot(c)
          /\ \A i \in 1 .. Len(queue[c]) : queue[c][i] = LastGot(c) + i
      BY <2>1, <1>0 DEF IInv, NothingMissed
    <2>3. Head(queue[c]) = LastGot(c) + 1
      BY <2>2, <1>3
    <2>4. Len(queue'[c]) = count'[FeedOf[c]] - LastGot(c)'
      <3>1. Len(queue'[c]) = Len(queue[c]) - 1 /\ count' = count
        BY <1>1, <1>3, <1>4
      <3> QED
        BY <3>1, <2>1, <2>2, <2>3, <1>2
    <2>5. ASSUME NEW i \in 1 .. Len(queue'[c]) PROVE queue'[c][i] = LastGot(c)' + i
      <3>1. queue'[c][i] = LastGot(c) + (i + 1)
        BY <2>2, <1>11
      <3> QED
        BY <3>1, <2>1, <2>3, <1>2, <1>3
    <2> QED
      BY <2>4, <2>5
  <1>14. InvOrder' /\ NothingMissed'
    BY <1>1, <1>9, <1>12, <1>13, OneClient DEF IInv
  <1> QED
    BY <1>1, <1>6, <1>8, <1>14 DEF IInv, Made

\* A stream ends, its channel is closed, and then removed.
LEMMA DoneStep ==
    ASSUME IInv, NEW c \in Clients, Done(c) \/ CloseConn(c)
    PROVE  /\ IInv'
           /\ stream[c] # "idle" /\ stream'[c] # "idle" /\ UNCHANGED <<count, got>>
  <1>1. /\ stream' \in {[stream EXCEPT ![c] = "closing"], [stream EXCEPT ![c] = "closed"]}
        /\ stream[c] # "idle" /\ UNCHANGED <<pending, made, count, queue, got, missed, running, panicked>>
    BY DEF Done, CloseConn
  <1>2. stream'[c] \in {"closing", "closed"} /\ stream' \in [Clients -> Streams]
    BY <1>1 DEF IInv, Shape, Streams
  <1>3. Shape'
    BY <1>1, <1>2 DEF IInv, Shape
  <1>4. Others(c)
    BY <1>1 DEF Others, IInv, Shape
  <1>5. Bounded(c)' /\ InOrderOf(c)'
    BY <1>1 DEF IInv, InvOrder, Bounded, InOrderOf, LastGot
  <1>6. InvOrder' /\ NothingMissed'
    BY <1>1, <1>2, <1>4, <1>5, OneClient DEF IInv
  <1> QED
    BY <1>1, <1>2, <1>3, <1>6 DEF IInv, Made

LEMMA RemoveStep ==
    ASSUME IInv, NEW c \in Clients, RemoveStruct(c)
    PROVE  IInv'
  <1>1. /\ stream' = [stream EXCEPT ![c] = "idle"]
        /\ queue' = [queue EXCEPT ![c] = <<>>]
        /\ got' = [got EXCEPT ![c] = <<0>>]
        /\ UNCHANGED <<pending, made, count, missed, running, panicked>>
    BY DEF RemoveStruct
  <1>2. stream'[c] = "idle"
    BY <1>1 DEF IInv, Shape
  <1>3. Shape'
    <2>1. <<0>> \in Seq(Nat) /\ <<0>> # <<>>
      OBVIOUS
    <2>2. stream' \in [Clients -> Streams] /\ queue' \in [Clients -> Seq(Nat)] /\ got' \in [Clients -> Seq(Nat)]
      BY <1>1, <2>1 DEF IInv, Shape, Streams
    <2>3. \A d \in Clients : got'[d] # <<>> /\ Len(queue'[d]) <= QueueSize
      BY <1>1, <2>1, FeedsAssumption DEF IInv, Shape
    <2> QED
      BY <1>1, <2>2, <2>3 DEF IInv, Shape
  <1>4. Others(c)
    BY <1>1 DEF Others, IInv, Shape
  <1>5. InvOrder' /\ NothingMissed'
    BY <1>1, <1>2, <1>4, OneClient DEF IInv
  <1> QED
    BY <1>1, <1>3, <1>5 DEF IInv, Made

\* Steps that leave the streams and the feeds alone.
LEMMA QuietStep ==
    ASSUME IInv, Made', running' \in BOOLEAN, panicked' \in BOOLEAN,
           UNCHANGED <<count, stream, queue, got, missed>>
    PROVE  IInv'
  BY DEF IInv, Shape, InvOrder, NothingMissed, Bounded, InOrderOf, LastGot

\* PushLog either broadcasts on one feed or drops the log.
LEMMA PushLogCases ==
    ASSUME NEW p, PushLog(p)
    PROVE  /\ \/ UNCHANGED <<count, queue, missed, panicked>>
              \/ Broadcast("alert")
              \/ Broadcast("log")
           /\ pending' = pending \ {p} /\ UNCHANGED <<made, stream, got, running>>
  BY DEF PushLog, PushAlert, PushTelemetry

LEMMA InitInv == Init => IInv
  <1> SUFFICES ASSUME Init PROVE IInv
    OBVIOUS
  <1>1. Shape
    <2>1. <<0>> \in Seq(Nat) /\ <<0>> # <<>> /\ <<>> \in Seq(Nat) /\ Len(<<>>) = 0 /\ 0 <= QueueSize
      BY FeedsAssumption
    <2>2. queue \in [Clients -> Seq(Nat)] /\ got \in [Clients -> Seq(Nat)]
      BY <2>1 DEF Init
    <2>3. \A c \in Clients : got[c] # <<>> /\ Len(queue[c]) <= QueueSize
      BY <2>1 DEF Init
    <2>4. /\ count \in [FeedNames -> Nat] /\ stream \in [Clients -> Streams]
          /\ missed \in [Clients -> BOOLEAN] /\ running \in BOOLEAN /\ panicked \in BOOLEAN
      BY DEF Init, Streams
    <2> QED
      BY <2>2, <2>3, <2>4 DEF Shape
  <1>2. Made
    BY FeedsAssumption DEF Init, Made
  <1>3. InvOrder /\ NothingMissed
    BY DEF Init, InvOrder, NothingMissed
  <1> QED
    BY <1>1, <1>2, <1>3 DEF IInv

LEMMA NextInv == IInv /\ [Next]_vars => IInv'
  <1> SUFFICES ASSUME IInv, [Next]_vars PROVE IInv'
    OBVIOUS
  <1>1. ASSUME NEW log \in LogKinds, Log(log) PROVE IInv'
    <2>1. NothingToTell(log) \in BOOLEAN
      BY FeedsAssumption DEF NothingToTell, Logs
    <2>2. Made'
      BY <1>1, <2>1, FeedsAssumption DEF Log, IInv, Made
    <2> QED
      BY <1>1, <2>2, QuietStep DEF Log, clients, IInv, Shape
  <1>2. ASSUME NEW p \in pending, PushLog(p) PROVE IInv'
    <2>1. Made'
      BY <1>2, PushLogCases DEF IInv, Made
    <2>2. CASE UNCHANGED <<count, queue, missed, panicked>>
      BY <1>2, <2>1, <2>2, PushLogCases, QuietStep DEF IInv, Shape
    <2>3. CASE Broadcast("alert")
      BY <1>2, <2>1, <2>3, PushLogCases, BroadcastStep DEF IInv, FeedNames
    <2>4. CASE Broadcast("log")
      BY <1>2, <2>1, <2>4, PushLogCases, BroadcastStep DEF IInv, FeedNames
    <2> QED
      BY <1>2, <2>2, <2>3, <2>4, PushLogCases
  <1>3. CASE PushMessage
    <2>1. Made'
      BY <1>3, FeedsAssumption DEF PushMessage, IInv, Made
    <2>2. Broadcast("message") /\ UNCHANGED <<stream, got, running>> /\ "message" \in FeedNames
      BY <1>3 DEF PushMessage, FeedNames
    <2> QED
      BY <2>1, <2>2, BroadcastStep DEF IInv
  <1>10. ASSUME NEW p \in pending, PushSourceless(p) PROVE IInv'
    <2>1. [p EXCEPT !.told = TRUE] \in [id : 0 .. MaxLogs, log : LogKinds, told : BOOLEAN]
      BY DEF IInv, Made
    <2>2. Made'
      BY <1>10, <2>1 DEF PushSourceless, IInv, Made
    <2>3. Broadcast("message") /\ UNCHANGED <<stream, got, running>> /\ "message" \in FeedNames
      BY <1>10 DEF PushSourceless, FeedNames
    <2> QED
      BY <2>2, <2>3, BroadcastStep DEF IInv
  <1>4. CASE DestroyFeeder
    BY <1>4, QuietStep DEF DestroyFeeder, clients, IInv, Made, Shape
  <1>5. ASSUME NEW c \in Clients, WatchMessages(c) \/ WatchAlerts(c) \/ WatchLogs(c) PROVE IInv'
    BY <1>5, SubscribedStep DEF WatchMessages, WatchAlerts, WatchLogs
  <1>6. ASSUME NEW c \in Clients, Send(c) PROVE IInv'
    BY <1>6, SendStep
  <1>7. ASSUME NEW c \in Clients, Done(c) \/ CloseConn(c) PROVE IInv'
    BY <1>7, DoneStep
  <1>8. ASSUME NEW c \in Clients, RemoveStruct(c) PROVE IInv'
    BY <1>8, RemoveStep
  <1>9. CASE UNCHANGED vars
    BY <1>9, QuietStep DEF vars, IInv, Made, Shape
  <1> QED
    BY <1>1, <1>2, <1>3, <1>4, <1>5, <1>6, <1>7, <1>8, <1>9, <1>10 DEF Next
------------------------------------------------------------------------------
\* Every behaviour of the feeds keeps the inductive invariant: the events in a
\* channel follow one another and the last one the client got (PushLog and
\* PushMessage append under the feed's lock, the stream takes the head).
THEOREM Invariance == Spec => []IInv
  BY InitInv, NextInv, PTL DEF Spec

\* The types of the feeds' state; a channel never holds more than its capacity.
THEOREM TypeCorrect == Spec => []TypeOK
  <1>1. IInv => TypeOK
    BY DEF IInv, Shape, Made, TypeOK
  <1> QED
    BY <1>1, Invariance, PTL

\* A client whose channel was never full at a broadcast has got, or has in its
\* channel, every event since its subscription (the select of PushLog and
\* PushMessage loses events only in its default branch).
THEOREM FastClientsMissNothing == Spec => []NothingMissed
  <1>1. IInv => NothingMissed
    BY DEF IInv
  <1> QED
    BY <1>1, Invariance, PTL
------------------------------------------------------------------------------
\* The steps of the feeds as steps of FeedSpec.

LEMMA PublishMaps ==
    ASSUME NEW f \in FeedNames, Broadcast(f), UNCHANGED <<stream, got>>
    PROVE  Promise!Next \/ UNCHANGED Promise!vars
  <1>1. Seen' = Seen
    BY DEF Seen
  <1>2. CASE UNCHANGED count
    BY <1>1, <1>2 DEF Seen, Promise!vars
  <1>3. CASE count' = [count EXCEPT ![f] = @ + 1]
    BY <1>1, <1>3 DEF Seen, Promise!Next, Promise!Publish
  <1> QED
    BY <1>2, <1>3 DEF Broadcast

LEMMA SubscribeMaps ==
    ASSUME IInv, NEW c \in Clients, Subscribed(c)
    PROVE  Promise!Next
  <1>1. /\ stream[c] = "idle" /\ stream' \in {[stream EXCEPT ![c] = "open"], [stream EXCEPT ![c] = "closing"]}
        /\ got' = [got EXCEPT ![c] = <<count[FeedOf[c]]>>] /\ count' = count
    BY DEF Subscribed
  <1>2. Seen[c] = <<>>
    BY <1>1 DEF Seen
  <1>3. Seen' = [Seen EXCEPT ![c] = <<count[FeedOf[c]]>>]
    BY <1>1 DEF Seen, IInv, Shape
  <1> QED
    BY <1>1, <1>2, <1>3 DEF Seen, Promise!Next, Promise!Subscribe

LEMMA LeaveMaps ==
    ASSUME IInv, NEW c \in Clients, RemoveStruct(c)
    PROVE  Promise!Next
  <1>1. /\ stream' = [stream EXCEPT ![c] = "idle"] /\ count' = count
        /\ got' = [got EXCEPT ![c] = <<0>>]
    BY DEF RemoveStruct
  <1>2. Seen' = [Seen EXCEPT ![c] = <<>>]
    BY <1>1 DEF Seen, IInv, Shape
  <1> QED
    BY <1>1, <1>2 DEF Seen, Promise!Next, Promise!Leave

LEMMA EndMaps ==
    ASSUME IInv, NEW c \in Clients, stream[c] # "idle",
           stream' \in {[stream EXCEPT ![c] = "closing"], [stream EXCEPT ![c] = "closed"]},
           UNCHANGED <<count, got>>
    PROVE  UNCHANGED Promise!vars
  <1>1. Seen' = Seen
    BY DEF Seen, IInv, Shape
  <1> QED
    BY <1>1 DEF Seen, Promise!vars

LEMMA DeliverMaps ==
    ASSUME IInv, NEW c \in Clients, Send(c)
    PROVE  Promise!Next \/ UNCHANGED Promise!vars
  <1>1. CASE stream' = [stream EXCEPT ![c] = "closing"] /\ UNCHANGED got
    BY <1>1, EndMaps DEF Send, Receives
  <1>2. CASE got' = [got EXCEPT ![c] = Append(@, Taken(c))]
    <2>1. /\ stream[c] = "open" /\ count' = count
          /\ stream' \in {[stream EXCEPT ![c] = "open"], [stream EXCEPT ![c] = "closing"]}
      BY DEF Send, Receives
    <2>2. Seen[c] = got[c] /\ Seen[c] # <<>> /\ Seen[c][Len(Seen[c])] = LastGot(c)
      BY <2>1 DEF Seen, IInv, Shape, LastGot
    <2>3. Seen' = [Seen EXCEPT ![c] = Append(@, Head(queue[c]))]
      BY <1>2, <2>1 DEF Seen, IInv, Shape, Taken
    <2>4. Head(queue[c]) \in (Seen[c][Len(Seen[c])] + 1) .. count[FeedOf[c]]
      BY <2>2, SendStep
    <2> QED
      BY <2>1, <2>2, <2>3, <2>4 DEF Seen, Promise!Next, Promise!Deliver
  <1> QED
    BY <1>1, <1>2 DEF Send

\* The feeds implement FeedSpec: a client gets events of its feed in the order of
\* their publication, none twice and none from before its subscription, whatever
\* channels are full, streams end and DestroyFeeder does (logServer.go, feeder.go).
THEOREM FeedsImplementSpec == Spec => InOrder
  <1>1. Init => Promise!Init
    BY DEF Init, Promise!Init
  <1>2. IInv /\ [Next]_vars => [Promise!Next]_(Promise!vars)
    <2> SUFFICES ASSUME IInv, [Next]_vars
                 PROVE  Promise!Next \/ UNCHANGED Promise!vars
      OBVIOUS
    <2>0. ASSUME UNCHANGED <<count, stream, got>> PROVE UNCHANGED Promise!vars
      BY <2>0 DEF Promise!vars
    <2>1. ASSUME NEW log \in LogKinds, Log(log) PROVE UNCHANGED Promise!vars
      BY <2>0, <2>1 DEF Log, clients
    <2>2. ASSUME NEW p \in pending, PushLog(p) PROVE Promise!Next \/ UNCHANGED Promise!vars
      BY <2>0, <2>2, PushLogCases, PublishMaps DEF FeedNames
    <2>3. CASE PushMessage
      BY <2>3, PublishMaps DEF PushMessage, FeedNames
    <2>9. ASSUME NEW p \in pending, PushSourceless(p) PROVE Promise!Next \/ UNCHANGED Promise!vars
      BY <2>9, PublishMaps DEF PushSourceless, FeedNames
    <2>4. CASE DestroyFeeder \/ UNCHANGED vars
      BY <2>0, <2>4 DEF DestroyFeeder, clients, vars
    <2>5. ASSUME NEW c \in Clients, WatchMessages(c) \/ WatchAlerts(c) \/ WatchLogs(c) PROVE Promise!Next
      BY <2>5, SubscribeMaps DEF WatchMessages, WatchAlerts, WatchLogs
    <2>6. ASSUME NEW c \in Clients, Send(c) PROVE Promise!Next \/ UNCHANGED Promise!vars
      BY <2>6, DeliverMaps
    <2>7. ASSUME NEW c \in Clients, Done(c) \/ CloseConn(c) PROVE UNCHANGED Promise!vars
      BY <2>7, EndMaps DEF Done, CloseConn
    <2>8. ASSUME NEW c \in Clients, RemoveStruct(c) PROVE Promise!Next
      BY <2>8, LeaveMaps
    <2> QED
      BY <2>1, <2>2, <2>3, <2>4, <2>5, <2>6, <2>7, <2>8, <2>9 DEF Next
  <1> QED
    BY <1>1, <1>2, Invariance, PTL DEF Spec, InOrder, Promise!Spec
==============================================================================
