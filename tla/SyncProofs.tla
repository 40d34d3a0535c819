----------------------------- MODULE SyncProofs -----------------------------
(***************************************************************************)
(* Proofs about Sync, for any devices, connections, drops and clips: what  *)
(* a browser will show as connected is who has a socket in the room, and a *)
(* device whose revocation is answered has none, but one that was on its   *)
(* way into the room then.                                                 *)
(*                                                                         *)
(* The first is inductive almost as it stands: each message under way is   *)
(* an entry or a departure since `ready`, in the order the room saw them   *)
(* (Converging), so the lemmas about WillShow, which say what one message  *)
(* more at either end of the wire comes to, carry the argument.            *)
(*                                                                         *)
(* And about Agent, the other end of the same socket on a desktop, for any *)
(* contents, events at once and failures: until an order of steps that its *)
(* guards do not cover is met, nothing received is sent back (NoEcho), and *)
(* what is sent is still there (SendsWhatIsThere).  Until then one event   *)
(* is written at a time (Written), what the clipboard holds is the user's  *)
(* or guarded (Guarded), and a read that was not overtaken is of it        *)
(* (PollKnows).                                                            *)
(***************************************************************************)
EXTENDS Sync, Agent, TLAPS

-----------------------------------------------------------------------------
(* What is said last.                                                      *)

LEMMA WillShowNothing ==
    ASSUME NEW list \in SUBSET Devices PROVE WillShow(list, << >>) = list
BY DEF WillShow

LEMMA HeardIs ==
    ASSUME NEW list \in SUBSET Devices, NEW m \in Message
    PROVE  /\ Heard(list, m) \in SUBSET Devices
           /\ \A x \in Devices :
                 x \in Heard(list, m) <=> IF Tells(m, x) THEN Here(m, x) ELSE x \in list
<1>1. m.who \in SUBSET Devices
      /\ m.t \in {"ready", "connected", "disconnected", "clip", "revoked"}
  BY DEF Message
<1>2. CASE m.t = "ready"
  <2>1. Heard(list, m) = m.who  BY <1>2 DEF Heard
  <2> QED BY <1>1, <1>2, <2>1 DEF Tells, Here
<1>3. CASE m.t = "connected"
  <2>1. Heard(list, m) = list \cup m.who  BY <1>3 DEF Heard
  <2> QED BY <1>1, <1>3, <2>1 DEF Tells, Here
<1>4. CASE m.t = "disconnected"
  <2>1. Heard(list, m) = list \ m.who  BY <1>4 DEF Heard
  <2> QED BY <1>1, <1>4, <2>1 DEF Tells, Here
<1>5. CASE m.t \in {"clip", "revoked"}
  <2>1. Heard(list, m) = list  BY <1>5 DEF Heard
  <2> QED BY <1>1, <1>5, <2>1 DEF Tells, Here
<1> QED BY <1>1, <1>2, <1>3, <1>4, <1>5

\* One message more is heard last.
LEMMA WillShowAppended ==
    ASSUME NEW list \in SUBSET Devices, NEW w \in Seq(Message), NEW m \in Message
    PROVE  WillShow(list, Append(w, m)) = Heard(WillShow(list, w), m)
<1> PICK v : v = Append(w, m)  OBVIOUS
<1>1. /\ Len(v) = Len(w) + 1 /\ v[Len(w) + 1] = m /\ Len(w) \in Nat
      /\ \A i \in 1..Len(w) : v[i] = w[i]
  OBVIOUS
<1>2. WillShow(list, w) \in SUBSET Devices /\ WillShow(list, v) \in SUBSET Devices
  BY DEF WillShow
<1>3. ASSUME NEW x \in Devices
      PROVE  x \in WillShow(list, v) <=> IF Tells(m, x) THEN Here(m, x) ELSE x \in WillShow(list, w)
  <2>1. CASE Tells(m, x)
    <3>1. ASSUME NEW i \in 1..Len(v), \A j \in (i + 1)..Len(v) : ~Tells(v[j], x) PROVE i = Len(w) + 1
      BY <1>1, <2>1, <3>1
    <3>2. Len(w) + 1 \in 1..Len(v) /\ (Len(w) + 2)..Len(v) = {}  BY <1>1
    <3>3. ~\A i \in 1..Len(v) : ~Tells(v[i], x)  BY <1>1, <2>1, <3>2
    <3>4. x \in WillShow(list, v) <=>
            \E i \in 1..Len(v) : /\ Tells(v[i], x) /\ Here(v[i], x)
                                 /\ \A j \in (i + 1)..Len(v) : ~Tells(v[j], x)
      BY <3>3 DEF WillShow
    <3>5. (Len(w) + 1) + 1 = Len(w) + 2  BY <1>1
    <3>6. x \in WillShow(list, v) => Here(m, x)  BY <1>1, <3>1, <3>4
    <3>7. Here(m, x) => x \in WillShow(list, v)  BY <1>1, <2>1, <3>2, <3>4, <3>5
    <3> QED BY <2>1, <3>6, <3>7
  <2>2. CASE ~Tells(m, x)
    <3>1. (\A i \in 1..Len(v) : ~Tells(v[i], x)) <=> (\A i \in 1..Len(w) : ~Tells(w[i], x))
      BY <1>1, <2>2
    <3>2. \A i \in 1..Len(w) : (\A j \in (i + 1)..Len(v) : ~Tells(v[j], x))
                               <=> (\A j \in (i + 1)..Len(w) : ~Tells(w[j], x))
      BY <1>1, <2>2
    <3>3. \A i \in 1..Len(v) : Tells(v[i], x) => i \in 1..Len(w)  BY <1>1, <2>2
    <3>4. \A i \in 1..Len(w) : i \in 1..Len(v) /\ v[i] = w[i]  BY <1>1
    <3> QED BY <2>2, <3>1, <3>2, <3>3, <3>4 DEF WillShow
  <2> QED BY <2>1, <2>2
<1> QED BY <1>2, <1>3, HeardIs

\* ... and the first is heard before the rest.
LEMMA WillShowHeard ==
    ASSUME NEW list \in SUBSET Devices, NEW w \in Seq(Message), w # << >>
    PROVE  WillShow(Heard(list, Head(w)), Tail(w)) = WillShow(list, w)
<1> PICK v, m : v = Tail(w) /\ m = Head(w)  OBVIOUS
<1>1. /\ Len(w) \in Nat /\ Len(w) = Len(v) + 1 /\ Len(v) \in Nat /\ w[1] = m /\ m \in Message
      /\ \A i \in 1..Len(v) : v[i] = w[i + 1]
  OBVIOUS
<1>2. ASSUME NEW x \in Devices PROVE x \in WillShow(Heard(list, m), v) <=> x \in WillShow(list, w)
  <2>1. x \in Heard(list, m) <=> IF Tells(m, x) THEN Here(m, x) ELSE x \in list
    BY <1>1, HeardIs
  <2>2. \A i \in 1..Len(w) : i = 1 \/ (i - 1 \in 1..Len(v) /\ w[i] = v[i - 1])
    BY <1>1
  <2>3. \A i \in 2..Len(w) : i - 1 \in 1..Len(v) /\ w[i] = v[i - 1]  BY <1>1
  <2>4. (\A j \in 2..Len(w) : ~Tells(w[j], x)) <=> \A j \in 1..Len(v) : ~Tells(v[j], x)
    <3>1. \A j \in 1..Len(v) : j + 1 \in 2..Len(w) /\ w[j + 1] = v[j]  BY <1>1
    <3> QED BY <2>3, <3>1
  <2>5. (\A i \in 1..Len(w) : ~Tells(w[i], x)) <=> ~Tells(m, x) /\ \A i \in 1..Len(v) : ~Tells(v[i], x)
    <3>1. 1 \in 1..Len(w) /\ \A i \in 1..Len(w) : i = 1 \/ i \in 2..Len(w)  BY <1>1
    <3>2. \A i \in 2..Len(w) : i \in 1..Len(w)  BY <1>1
    <3> QED BY <1>1, <2>4, <3>1, <3>2
  <2>6. ASSUME NEW i \in 1..Len(v)
        PROVE  (\A j \in (i + 2)..Len(w) : ~Tells(w[j], x)) <=> \A j \in (i + 1)..Len(v) : ~Tells(v[j], x)
    <3>1. \A j \in (i + 2)..Len(w) : j - 1 \in (i + 1)..Len(v) /\ w[j] = v[j - 1]  BY <1>1
    <3>2. \A j \in (i + 1)..Len(v) : j + 1 \in (i + 2)..Len(w) /\ w[j + 1] = v[j]  BY <1>1
    <3> QED BY <3>1, <3>2
  <2>7. (\E i \in 1..Len(w) : Tells(w[i], x) /\ Here(w[i], x) /\ \A j \in (i + 1)..Len(w) : ~Tells(w[j], x))
        <=> \/ Tells(m, x) /\ Here(m, x) /\ \A j \in 1..Len(v) : ~Tells(v[j], x)
            \/ \E i \in 1..Len(v) :
                  Tells(v[i], x) /\ Here(v[i], x) /\ \A j \in (i + 1)..Len(v) : ~Tells(v[j], x)
    <3>1. ASSUME NEW i \in 1..Len(w), Tells(w[i], x), Here(w[i], x),
                 \A j \in (i + 1)..Len(w) : ~Tells(w[j], x)
          PROVE  \/ Tells(m, x) /\ Here(m, x) /\ \A j \in 1..Len(v) : ~Tells(v[j], x)
                 \/ \E k \in 1..Len(v) :
                       Tells(v[k], x) /\ Here(v[k], x) /\ \A j \in (k + 1)..Len(v) : ~Tells(v[j], x)
      <4>1. CASE i = 1  BY <1>1, <2>4, <3>1, <4>1
      <4>2. CASE i # 1
        <5> PICK k : k = i - 1  OBVIOUS
        <5>1. k \in 1..Len(v) /\ w[i] = v[k] /\ i + 1 = k + 2  BY <2>2, <4>2
        <5> QED BY <2>6, <3>1, <5>1
      <4> QED BY <4>1, <4>2
    <3>2. ASSUME Tells(m, x), Here(m, x), \A j \in 1..Len(v) : ~Tells(v[j], x)
          PROVE  \E i \in 1..Len(w) :
                    Tells(w[i], x) /\ Here(w[i], x) /\ \A j \in (i + 1)..Len(w) : ~Tells(w[j], x)
      <4>1. 1 \in 1..Len(w) /\ 1 + 1 = 2  BY <1>1
      <4> QED BY <1>1, <2>4, <3>2, <4>1
    <3>3. ASSUME NEW k \in 1..Len(v), Tells(v[k], x), Here(v[k], x),
                 \A j \in (k + 1)..Len(v) : ~Tells(v[j], x)
          PROVE  \E i \in 1..Len(w) :
                    Tells(w[i], x) /\ Here(w[i], x) /\ \A j \in (i + 1)..Len(w) : ~Tells(w[j], x)
      <4>1. k + 1 \in 1..Len(w) /\ w[k + 1] = v[k] /\ (k + 1) + 1 = k + 2  BY <1>1
      <4> QED BY <2>6, <3>3, <4>1
    <3> QED BY <3>1, <3>2, <3>3
  <2> QED BY <2>1, <2>5, <2>7 DEF WillShow
<1>3. WillShow(Heard(list, m), v) \in SUBSET Devices /\ WillShow(list, w) \in SUBSET Devices
  BY DEF WillShow
<1> QED BY <1>2, <1>3

-----------------------------------------------------------------------------
(* The invariant.                                                          *)

Handled == {"none", "asked", "denied", "ticket", "no ticket", "claimed",
            "checked", "parked", "refused", "joined", "closing"}
Sockets == {"none", "dialing", "open", "closed"}

RoomOK ==
    /\ cut \subseteq revoked /\ revoked \subseteq Devices
    /\ late \subseteq Conns /\ expired \subseteq Conns
    /\ server \in [Conns -> Handled]
WireOK ==
    /\ wire \in [Conns -> Seq(Message)]
    /\ \A n \in Conns : wire[n] # << >> => InRoom(n) /\ client[n] # "closed"
PageOK ==
    /\ client \in [Conns -> Sockets] /\ over \subseteq Devices
    /\ conn \in [Devices -> Conns \cup {NoConn}]
    /\ status \in [Devices -> {"connecting", "online", "offline", "revoked"}]
    /\ seen \in [Devices -> SUBSET Devices]
    /\ \A d \in Devices : conn[d] # NoConn => owner[conn[d]] = d /\ d \notin over
BoundsOK == drops \in 0..MaxDrops /\ clips \in 0..MaxClips

\* Who waits for a ticket is the hook's connection, unless its page is closed.
Asking ==
    \A n \in Conns : server[n] \in {"asked", "denied"} =>
        client[n] = "none" /\ (conn[owner[n]] = n \/ owner[n] \in over)

\* Nothing of a device that is cut off is past its check, but what was then.
Apart ==
    \A n \in Conns :
        owner[n] \in cut /\ server[n] \in {"checked", "parked", "joined"} => n \in late

Live(n) == server[n] = "joined" /\ client[n] \in {"dialing", "open"} /\ conn[owner[n]] = n
Converging ==
    \A n \in Conns : Live(n) => WillShow(seen[owner[n]], wire[n]) = Present \ {owner[n]}

Types == RoomOK /\ WireOK /\ PageOK /\ BoundsOK /\ Asking
IInv == Types /\ Apart /\ Converging

-----------------------------------------------------------------------------
(* Messages to many.                                                       *)

LEMMA OwnerIs == \A n \in Conns : owner[n] \in Devices
BY ConnAssumption

LEMMA FanoutIs ==
    ASSUME Types, NEW m \in Message, NEW d
    PROVE  /\ Fanout(m, d) \in [Conns -> Seq(Message)]
           /\ \A n \in Conns : Fanout(m, d)[n] =
                 IF server[n] = "joined" /\ owner[n] # d /\ client[n] # "closed"
                 THEN Append(wire[n], m) ELSE wire[n]
<1>1. wire \in [Conns -> Seq(Message)]  BY DEF Types, WireOK
<1>2. \A n \in Conns : Append(wire[n], m) \in Seq(Message) /\ wire[n] \in Seq(Message)  BY <1>1
<1>3. \A n \in Conns : Sends(wire, n, m)[n] =
        IF client[n] = "closed" THEN wire[n] ELSE Append(wire[n], m)
  BY <1>1 DEF Sends
<1> QED BY <1>2, <1>3 DEF Fanout

LEMMA PresentIs == Present \subseteq Devices
BY OwnerIs DEF Present

\* A step that says nothing, to anybody.
LEMMA Silent ==
    ASSUME IInv, wire \in [Conns -> Seq(Message)],
           \A n \in Conns : InRoom(n)' <=> InRoom(n),
           \A n \in Conns : Live(n)' => Live(n) /\ wire'[n] = wire[n]
                                        /\ seen'[owner[n]] = seen[owner[n]]
    PROVE  Converging'
<1>1. Present' = Present  BY DEF Present
<1> QED BY <1>1 DEF IInv, Converging

\* A message about a device to every other's.
LEMMA Announced ==
    ASSUME IInv, NEW m \in Message, NEW d \in Devices, seen' = seen,
           \A n \in Conns : Live(n)' /\ Live(n) =>
              wire'[n] = IF owner[n] # d THEN Append(wire[n], m) ELSE wire[n],
           \A n \in Conns : Live(n)' /\ Live(n) =>
              Present' \ {owner[n]} = IF owner[n] # d THEN Heard(Present \ {owner[n]}, m)
                                      ELSE Present \ {owner[n]},
           \A n \in Conns : Live(n)' /\ ~Live(n) =>
              WillShow(seen[owner[n]], wire'[n]) = Present' \ {owner[n]}
    PROVE  Converging'
<1>1. \A n \in Conns : wire[n] \in Seq(Message) /\ seen[owner[n]] \in SUBSET Devices
  BY OwnerIs DEF IInv, Types, WireOK, PageOK
<1> SUFFICES ASSUME NEW n \in Conns, Live(n)'
             PROVE  WillShow(seen[owner[n]], wire'[n]) = Present' \ {owner[n]}
  BY DEF Converging
<1>2. CASE Live(n)
  <2>1. WillShow(seen[owner[n]], wire[n]) = Present \ {owner[n]}  BY <1>2 DEF IInv, Converging
  <2>2. CASE owner[n] # d
    <3>1. WillShow(seen[owner[n]], Append(wire[n], m)) = Heard(WillShow(seen[owner[n]], wire[n]), m)
      BY <1>1, WillShowAppended
    <3> QED BY <1>2, <2>1, <2>2, <3>1
  <2>3. CASE owner[n] = d  BY <1>2, <2>1, <2>3
  <2> QED BY <2>2, <2>3
<1> QED BY <1>2

LEMMA ConnectKeeps == ASSUME IInv, NEW d \in Devices, NEW n \in Conns, Connect(d, n) PROVE IInv'
<1>1. RoomOK /\ WireOK /\ PageOK /\ BoundsOK /\ Asking  BY DEF IInv, Types
<1>2. RoomOK'  BY <1>1, OwnerIs DEF Connect, RoomOK, Handled, room
<1>3. WireOK'  BY <1>1, OwnerIs DEF Connect, WireOK, InRoom, RoomOK, Handled, PageOK, Sockets, room, page
<1>4. PageOK'  BY <1>1, OwnerIs, ConnAssumption DEF Connect, PageOK, Sockets, RoomOK, Asking, page
<1>5. BoundsOK'  BY <1>1, BoundAssumption DEF Connect, BoundsOK, bounds
<1>6. Asking'  BY <1>1, OwnerIs, ConnAssumption DEF Connect, Asking, RoomOK, PageOK
<1>7. Apart'  BY <1>1, OwnerIs DEF Connect, IInv, Apart, RoomOK, room
<1>8. Converging'
  <2>1. \A m \in Conns : InRoom(m)' <=> InRoom(m)  BY <1>1 DEF Connect, InRoom, RoomOK, room
  <2>2. \A m \in Conns : Live(m)' => Live(m) /\ wire'[m] = wire[m] /\ seen'[owner[m]] = seen[owner[m]]
    BY <1>1, OwnerIs, ConnAssumption DEF Connect, Live, RoomOK, WireOK, PageOK, room, page
  <2> QED BY <1>1, <2>1, <2>2, Silent DEF WireOK
<1> QED BY <1>2, <1>3, <1>4, <1>5, <1>6, <1>7, <1>8 DEF IInv, Types

LEMMA IssueKeeps == ASSUME IInv, NEW n \in Conns, Issue(n) PROVE IInv'
<1>1. RoomOK /\ WireOK /\ PageOK /\ BoundsOK /\ Asking  BY DEF IInv, Types
<1>2. RoomOK'  BY <1>1, OwnerIs DEF Issue, RoomOK, Handled, room
<1>3. WireOK'  BY <1>1, OwnerIs DEF Issue, WireOK, InRoom, RoomOK, Handled, PageOK, Sockets, room, page
<1>4. PageOK'  BY <1>1, OwnerIs, ConnAssumption DEF Issue, PageOK, Sockets, RoomOK, Asking, page
<1>5. BoundsOK'  BY <1>1, BoundAssumption DEF Issue, BoundsOK, bounds
<1>6. Asking'  BY <1>1, OwnerIs DEF Issue, Asking, RoomOK, PageOK, room, page
<1>7. Apart'  BY <1>1, OwnerIs DEF Issue, IInv, Apart, RoomOK, room
<1>8. Converging'
  <2>1. \A m \in Conns : InRoom(m)' <=> InRoom(m)  BY <1>1 DEF Issue, InRoom, RoomOK, room
  <2>2. \A m \in Conns : Live(m)' => Live(m) /\ wire'[m] = wire[m] /\ seen'[owner[m]] = seen[owner[m]]
    BY <1>1, OwnerIs, ConnAssumption DEF Issue, Live, RoomOK, WireOK, PageOK, room, page
  <2> QED BY <1>1, <2>1, <2>2, Silent DEF WireOK
<1> QED BY <1>2, <1>3, <1>4, <1>5, <1>6, <1>7, <1>8 DEF IInv, Types

LEMMA DialKeeps == ASSUME IInv, NEW n \in Conns, Dial(n) PROVE IInv'
<1>1. RoomOK /\ WireOK /\ PageOK /\ BoundsOK /\ Asking  BY DEF IInv, Types
<1>2. RoomOK'  BY <1>1, OwnerIs DEF Dial, RoomOK, Handled, room
<1>3. WireOK'  BY <1>1, OwnerIs DEF Dial, WireOK, InRoom, RoomOK, Handled, PageOK, Sockets, room, page
<1>4. PageOK'  BY <1>1, OwnerIs, ConnAssumption DEF Dial, PageOK, Sockets, RoomOK, Asking, page
<1>5. BoundsOK'  BY <1>1, BoundAssumption DEF Dial, BoundsOK, bounds
<1>6. Asking'  BY <1>1, OwnerIs DEF Dial, Asking, RoomOK, PageOK, room, page
<1>7. Apart'  BY <1>1, OwnerIs DEF Dial, IInv, Apart, RoomOK, room
<1>8. Converging'
  <2>1. \A m \in Conns : InRoom(m)' <=> InRoom(m)  BY <1>1 DEF Dial, InRoom, RoomOK, room
  <2>2. \A m \in Conns : Live(m)' => Live(m) /\ wire'[m] = wire[m] /\ seen'[owner[m]] = seen[owner[m]]
    BY <1>1, OwnerIs, ConnAssumption DEF Dial, Live, RoomOK, WireOK, PageOK, room, page
  <2> QED BY <1>1, <2>1, <2>2, Silent DEF WireOK
<1> QED BY <1>2, <1>3, <1>4, <1>5, <1>6, <1>7, <1>8 DEF IInv, Types

LEMMA DeniedKeeps == ASSUME IInv, NEW n \in Conns, Denied(n) PROVE IInv'
<1>1. RoomOK /\ WireOK /\ PageOK /\ BoundsOK /\ Asking  BY DEF IInv, Types
<1>2. RoomOK'  BY <1>1, OwnerIs DEF Denied, Lets, RoomOK, Handled, room
<1>3. WireOK'  BY <1>1, OwnerIs DEF Denied, Lets, WireOK, InRoom, RoomOK, Handled, PageOK, Sockets, room, page
<1>4. PageOK'  BY <1>1, OwnerIs, ConnAssumption DEF Denied, Lets, PageOK, Sockets, RoomOK, Asking, page
<1>5. BoundsOK'  BY <1>1, BoundAssumption DEF Denied, Lets, BoundsOK, bounds
<1>6. Asking'  BY <1>1, OwnerIs DEF Denied, Lets, Asking, RoomOK, PageOK, room, page
<1>7. Apart'  BY <1>1, OwnerIs DEF Denied, Lets, IInv, Apart, RoomOK, room
<1>8. Converging'
  <2>1. \A m \in Conns : InRoom(m)' <=> InRoom(m)  BY <1>1 DEF Denied, Lets, InRoom, RoomOK, room
  <2>2. \A m \in Conns : Live(m)' => Live(m) /\ wire'[m] = wire[m] /\ seen'[owner[m]] = seen[owner[m]]
    BY <1>1, OwnerIs, ConnAssumption DEF Denied, Lets, Live, RoomOK, WireOK, PageOK, room, page
  <2> QED BY <1>1, <2>1, <2>2, Silent DEF WireOK
<1> QED BY <1>2, <1>3, <1>4, <1>5, <1>6, <1>7, <1>8 DEF IInv, Types

LEMMA ClaimKeeps == ASSUME IInv, NEW n \in Conns, Claim(n) PROVE IInv'
<1>1. RoomOK /\ WireOK /\ PageOK /\ BoundsOK /\ Asking  BY DEF IInv, Types
<1>2. RoomOK'  BY <1>1, OwnerIs DEF Claim, RoomOK, Handled, room
<1>3. WireOK'  BY <1>1, OwnerIs DEF Claim, WireOK, InRoom, RoomOK, Handled, PageOK, Sockets, room, page
<1>4. PageOK'  BY <1>1, OwnerIs, ConnAssumption DEF Claim, PageOK, Sockets, RoomOK, Asking, page
<1>5. BoundsOK'  BY <1>1, BoundAssumption DEF Claim, BoundsOK, bounds
<1>6. Asking'
  <2>1. \A m \in Conns : server'[m] = server[m] \/ server'[m] \in {"claimed", "refused"}
    BY <1>1 DEF Claim, RoomOK
  <2>2. UNCHANGED <<client, conn, over>>  BY DEF Claim, page
  <2> QED BY <1>1, <2>1, <2>2 DEF Asking
<1>7. Apart'  BY <1>1, OwnerIs DEF Claim, IInv, Apart, RoomOK, room
<1>8. Converging'
  <2>1. \A m \in Conns : InRoom(m)' <=> InRoom(m)  BY <1>1 DEF Claim, InRoom, RoomOK, room
  <2>2. \A m \in Conns : Live(m)' => Live(m) /\ wire'[m] = wire[m] /\ seen'[owner[m]] = seen[owner[m]]
    BY <1>1, OwnerIs, ConnAssumption DEF Claim, Live, RoomOK, WireOK, PageOK, room, page
  <2> QED BY <1>1, <2>1, <2>2, Silent DEF WireOK
<1> QED BY <1>2, <1>3, <1>4, <1>5, <1>6, <1>7, <1>8 DEF IInv, Types

LEMMA CheckKeeps == ASSUME IInv, NEW n \in Conns, Check(n) PROVE IInv'
<1>1. RoomOK /\ WireOK /\ PageOK /\ BoundsOK /\ Asking  BY DEF IInv, Types
<1>2. RoomOK'  BY <1>1, OwnerIs DEF Check, MayEnter, RoomOK, Handled, room
<1>3. WireOK'  BY <1>1, OwnerIs DEF Check, MayEnter, WireOK, InRoom, RoomOK, Handled, PageOK, Sockets, room, page
<1>4. PageOK'  BY <1>1, OwnerIs, ConnAssumption DEF Check, MayEnter, PageOK, Sockets, RoomOK, Asking, page
<1>5. BoundsOK'  BY <1>1, BoundAssumption DEF Check, MayEnter, BoundsOK, bounds
<1>6. Asking'  BY <1>1, OwnerIs DEF Check, MayEnter, Asking, RoomOK, PageOK, room, page
<1>7. Apart'  BY <1>1, OwnerIs DEF Check, MayEnter, IInv, Apart, RoomOK, room
<1>8. Converging'
  <2>1. \A m \in Conns : InRoom(m)' <=> InRoom(m)  BY <1>1 DEF Check, MayEnter, InRoom, RoomOK, room
  <2>2. \A m \in Conns : Live(m)' => Live(m) /\ wire'[m] = wire[m] /\ seen'[owner[m]] = seen[owner[m]]
    BY <1>1, OwnerIs, ConnAssumption DEF Check, MayEnter, Live, RoomOK, WireOK, PageOK, room, page
  <2> QED BY <1>1, <2>1, <2>2, Silent DEF WireOK
<1> QED BY <1>2, <1>3, <1>4, <1>5, <1>6, <1>7, <1>8 DEF IInv, Types

LEMMA ParkKeeps == ASSUME IInv, NEW n \in Conns, Park(n) PROVE IInv'
<1>1. RoomOK /\ WireOK /\ PageOK /\ BoundsOK /\ Asking  BY DEF IInv, Types
<1>2. RoomOK'  BY <1>1, OwnerIs DEF Park, RoomOK, Handled, room
<1>3. WireOK'  BY <1>1, OwnerIs DEF Park, WireOK, InRoom, RoomOK, Handled, PageOK, Sockets, room, page
<1>4. PageOK'  BY <1>1, OwnerIs, ConnAssumption DEF Park, PageOK, Sockets, RoomOK, Asking, page
<1>5. BoundsOK'  BY <1>1, BoundAssumption DEF Park, BoundsOK, bounds
<1>6. Asking'  BY <1>1, OwnerIs DEF Park, Asking, RoomOK, PageOK, room, page
<1>7. Apart'  BY <1>1, OwnerIs DEF Park, IInv, Apart, RoomOK, room
<1>8. Converging'
  <2>1. \A m \in Conns : InRoom(m)' <=> InRoom(m)  BY <1>1 DEF Park, InRoom, RoomOK, room
  <2>2. \A m \in Conns : Live(m)' => Live(m) /\ wire'[m] = wire[m] /\ seen'[owner[m]] = seen[owner[m]]
    BY <1>1, OwnerIs, ConnAssumption DEF Park, Live, RoomOK, WireOK, PageOK, room, page
  <2> QED BY <1>1, <2>1, <2>2, Silent DEF WireOK
<1> QED BY <1>2, <1>3, <1>4, <1>5, <1>6, <1>7, <1>8 DEF IInv, Types

LEMMA ParkExpiresKeeps == ASSUME IInv, NEW n \in Conns, ParkExpires(n) PROVE IInv'
<1>1. RoomOK /\ WireOK /\ PageOK /\ BoundsOK /\ Asking  BY DEF IInv, Types
<1>2. RoomOK'  BY <1>1, OwnerIs DEF ParkExpires, RoomOK, Handled, room
<1>3. WireOK'  BY <1>1, OwnerIs DEF ParkExpires, WireOK, InRoom, RoomOK, Handled, PageOK, Sockets, room, page
<1>4. PageOK'  BY <1>1, OwnerIs, ConnAssumption DEF ParkExpires, PageOK, Sockets, RoomOK, Asking, page
<1>5. BoundsOK'  BY <1>1, BoundAssumption DEF ParkExpires, BoundsOK, bounds
<1>6. Asking'  BY <1>1, OwnerIs DEF ParkExpires, Asking, RoomOK, PageOK, room, page
<1>7. Apart'  BY <1>1, OwnerIs DEF ParkExpires, IInv, Apart, RoomOK, room
<1>8. Converging'
  <2>1. \A m \in Conns : InRoom(m)' <=> InRoom(m)  BY <1>1 DEF ParkExpires, InRoom, RoomOK, room
  <2>2. \A m \in Conns : Live(m)' => Live(m) /\ wire'[m] = wire[m] /\ seen'[owner[m]] = seen[owner[m]]
    BY <1>1, OwnerIs, ConnAssumption DEF ParkExpires, Live, RoomOK, WireOK, PageOK, room, page
  <2> QED BY <1>1, <2>1, <2>2, Silent DEF WireOK
<1> QED BY <1>2, <1>3, <1>4, <1>5, <1>6, <1>7, <1>8 DEF IInv, Types

LEMMA OpenedKeeps == ASSUME IInv, NEW n \in Conns, Opened(n) PROVE IInv'
<1>1. RoomOK /\ WireOK /\ PageOK /\ BoundsOK /\ Asking  BY DEF IInv, Types
<1>2. RoomOK'  BY <1>1, OwnerIs DEF Opened, RoomOK, Handled, room
<1>3. WireOK'  BY <1>1, OwnerIs DEF Opened, WireOK, InRoom, RoomOK, Handled, PageOK, Sockets, room, page
<1>4. PageOK'  BY <1>1, OwnerIs, ConnAssumption DEF Opened, PageOK, Sockets, RoomOK, Asking, page
<1>5. BoundsOK'  BY <1>1, BoundAssumption DEF Opened, BoundsOK, bounds
<1>6. Asking'  BY <1>1, OwnerIs DEF Opened, Asking, RoomOK, PageOK, room, page
<1>7. Apart'  BY <1>1, OwnerIs DEF Opened, IInv, Apart, RoomOK, room
<1>8. Converging'
  <2>1. \A m \in Conns : InRoom(m)' <=> InRoom(m)  BY <1>1 DEF Opened, InRoom, RoomOK, room
  <2>2. \A m \in Conns : Live(m)' => Live(m) /\ wire'[m] = wire[m] /\ seen'[owner[m]] = seen[owner[m]]
    BY <1>1, OwnerIs, ConnAssumption DEF Opened, Live, RoomOK, WireOK, PageOK, room, page
  <2> QED BY <1>1, <2>1, <2>2, Silent DEF WireOK
<1> QED BY <1>2, <1>3, <1>4, <1>5, <1>6, <1>7, <1>8 DEF IInv, Types

LEMMA ClosedKeeps == ASSUME IInv, NEW n \in Conns, Closed(n) PROVE IInv'
<1>1. RoomOK /\ WireOK /\ PageOK /\ BoundsOK /\ Asking  BY DEF IInv, Types
<1>2. RoomOK'  BY <1>1, OwnerIs DEF Closed, Lets, RoomOK, Handled, room
<1>3. WireOK'  BY <1>1, OwnerIs DEF Closed, Lets, WireOK, InRoom, RoomOK, Handled, PageOK, Sockets, room, page
<1>4. PageOK'  BY <1>1, OwnerIs, ConnAssumption DEF Closed, Lets, PageOK, Sockets, RoomOK, Asking, page
<1>5. BoundsOK'  BY <1>1, BoundAssumption DEF Closed, Lets, BoundsOK, bounds
<1>6. Asking'  BY <1>1, OwnerIs DEF Closed, Lets, Asking, RoomOK, PageOK, room, page
<1>7. Apart'  BY <1>1, OwnerIs DEF Closed, Lets, IInv, Apart, RoomOK, room
<1>8. Converging'
  <2>1. \A m \in Conns : InRoom(m)' <=> InRoom(m)  BY <1>1 DEF Closed, Lets, InRoom, RoomOK, room
  <2>2. \A m \in Conns : Live(m)' => Live(m) /\ wire'[m] = wire[m] /\ seen'[owner[m]] = seen[owner[m]]
    BY <1>1, OwnerIs, ConnAssumption DEF Closed, Lets, Live, RoomOK, WireOK, PageOK, room, page
  <2> QED BY <1>1, <2>1, <2>2, Silent DEF WireOK
<1> QED BY <1>2, <1>3, <1>4, <1>5, <1>6, <1>7, <1>8 DEF IInv, Types

LEMMA ForgottenKeeps == ASSUME IInv, NEW n \in Conns, Forgotten(n) PROVE IInv'
<1>1. RoomOK /\ WireOK /\ PageOK /\ BoundsOK /\ Asking  BY DEF IInv, Types
<1>2. RoomOK'  BY <1>1, OwnerIs DEF Forgotten, RoomOK, Handled, room
<1>3. WireOK'  BY <1>1, OwnerIs DEF Forgotten, WireOK, InRoom, RoomOK, Handled, PageOK, Sockets, room, page
<1>4. PageOK'  BY <1>1, OwnerIs, ConnAssumption DEF Forgotten, PageOK, Sockets, RoomOK, Asking, page
<1>5. BoundsOK'  BY <1>1, BoundAssumption DEF Forgotten, BoundsOK, bounds
<1>6. Asking'  BY <1>1, OwnerIs DEF Forgotten, Asking, RoomOK, PageOK, room, page
<1>7. Apart'  BY <1>1, OwnerIs DEF Forgotten, IInv, Apart, RoomOK, room
<1>8. Converging'
  <2>1. \A m \in Conns : InRoom(m)' <=> InRoom(m)  BY <1>1 DEF Forgotten, InRoom, RoomOK, room
  <2>2. \A m \in Conns : Live(m)' => Live(m) /\ wire'[m] = wire[m] /\ seen'[owner[m]] = seen[owner[m]]
    BY <1>1, OwnerIs, ConnAssumption DEF Forgotten, Live, RoomOK, WireOK, PageOK, room, page
  <2> QED BY <1>1, <2>1, <2>2, Silent DEF WireOK
<1> QED BY <1>2, <1>3, <1>4, <1>5, <1>6, <1>7, <1>8 DEF IInv, Types

LEMMA DropKeeps == ASSUME IInv, NEW n \in Conns, Drop(n) PROVE IInv'
<1>1. RoomOK /\ WireOK /\ PageOK /\ BoundsOK /\ Asking  BY DEF IInv, Types
<1>2. /\ drops < MaxDrops /\ drops' = drops + 1
      /\ wire' = [wire EXCEPT ![n] = << >>]
      /\ expired' = {m \in expired : server'[m] = "ticket"}
      /\ UNCHANGED <<revoked, cut, late, over, seen, clips>>
  BY DEF Drop
<1>3. \/ conn[owner[n]] = n /\ status' = [status EXCEPT ![owner[n]] = "offline"]
         /\ conn' = [conn EXCEPT ![owner[n]] = NoConn]
      \/ conn[owner[n]] # n /\ UNCHANGED <<status, conn>>
  BY DEF Drop, Lets
<1>4. \/ client[n] \in {"dialing", "open"} /\ client' = [client EXCEPT ![n] = "closed"] /\ server' = server
      \/ /\ server[n] \in {"asked", "ticket", "no ticket", "denied"}
         /\ server' = [server EXCEPT ![n] = "none"] /\ client' = client
  BY DEF Drop
<1>5. RoomOK'  BY <1>1, <1>2, <1>4 DEF RoomOK, Handled
<1>6. WireOK'
  <2>1. wire'[n] = << >> /\ \A m \in Conns \ {n} : wire'[m] = wire[m]  BY <1>1, <1>2 DEF WireOK
  <2>2. \A m \in Conns \ {n} : server'[m] = server[m] /\ client'[m] = client[m]
    BY <1>1, <1>4 DEF RoomOK, PageOK
  <2>3. << >> \in Seq(Message)  OBVIOUS
  <2>4. wire' \in [Conns -> Seq(Message)]  BY <1>1, <1>2, <2>3 DEF WireOK
  <2>5. \A m \in Conns : wire'[m] # << >> => InRoom(m)' /\ client'[m] # "closed"
    BY <1>1, <2>1, <2>2 DEF WireOK, InRoom
  <2> QED BY <2>4, <2>5 DEF WireOK
<1>7. PageOK'
  <2>1. client' \in [Conns -> Sockets]  BY <1>1, <1>4 DEF PageOK, Sockets
  <2>2. /\ conn' \in [Devices -> Conns \cup {NoConn}]
        /\ status' \in [Devices -> {"connecting", "online", "offline", "revoked"}]
        /\ \A d \in Devices : conn'[d] # NoConn => conn'[d] = conn[d]
    BY <1>1, <1>3, OwnerIs DEF PageOK
  <2> QED BY <1>1, <1>2, <2>1, <2>2 DEF PageOK
<1>8. BoundsOK'  BY <1>1, <1>2, BoundAssumption DEF BoundsOK
<1>9. Asking'
  <2> SUFFICES ASSUME NEW m \in Conns, server'[m] \in {"asked", "denied"}
               PROVE  client'[m] = "none" /\ (conn'[owner[m]] = m \/ owner[m] \in over')
    BY DEF Asking
  <2>1. server[m] = server'[m] /\ client[m] = "none" /\ (conn[owner[m]] = m \/ owner[m] \in over)
    BY <1>1, <1>4 DEF Asking, RoomOK
  <2>2. m # n  BY <1>1, <1>4, <2>1 DEF RoomOK
  <2>3. client'[m] = client[m]  BY <1>1, <1>4, <2>2 DEF PageOK
  <2>4. conn[owner[m]] = m => conn'[owner[m]] = m  BY <1>1, <1>3, <2>2, OwnerIs DEF PageOK
  <2> QED BY <1>2, <2>1, <2>3, <2>4
<1>10. Apart'  BY <1>1, <1>2, <1>4 DEF IInv, Apart, RoomOK
<1>11. Converging'
  <2>1. \A m \in Conns : InRoom(m)' <=> InRoom(m)  BY <1>1, <1>4 DEF InRoom, RoomOK
  <2>2. ~Live(n)'
    <3>1. conn'[owner[n]] # n  BY <1>1, <1>3, OwnerIs, ConnAssumption DEF PageOK
    <3> QED BY <3>1 DEF Live
  <2>3. \A m \in Conns \ {n} : wire'[m] = wire[m]  BY <1>1, <1>2 DEF WireOK
  <2>4. \A m \in Conns \ {n} : server'[m] = server[m] /\ client'[m] = client[m]
    BY <1>1, <1>4 DEF RoomOK, PageOK
  <2>5. \A d \in Devices : conn'[d] \in {conn[d], NoConn}  BY <1>1, <1>3 DEF PageOK
  <2>6. \A m \in Conns \ {n} : Live(m)' => Live(m)
    BY <2>4, <2>5, OwnerIs, ConnAssumption DEF Live
  <2> QED BY <1>1, <1>2, <2>1, <2>2, <2>3, <2>6, Silent DEF WireOK
<1> QED BY <1>5, <1>6, <1>7, <1>8, <1>9, <1>10, <1>11 DEF IInv, Types

LEMMA UnmountKeeps == ASSUME IInv, NEW d \in Devices, Unmount(d) PROVE IInv'
<1>1. RoomOK /\ WireOK /\ PageOK /\ BoundsOK /\ Asking  BY DEF IInv, Types
<1>2. RoomOK'  BY <1>1, OwnerIs DEF Unmount, RoomOK, Handled, room
<1>3. WireOK'
  <2>1. \A m \in Conns : wire'[m] = << >> \/ (wire'[m] = wire[m] /\ client'[m] = client[m])
    BY <1>1 DEF Unmount, WireOK, PageOK
  <2>2. wire' \in [Conns -> Seq(Message)]
    <3>1. << >> \in Seq(Message)  OBVIOUS
    <3>2. wire' = wire \/ wire' = [wire EXCEPT ![conn[d]] = << >>]  BY DEF Unmount
    <3> QED BY <1>1, <3>1, <3>2 DEF WireOK
  <2>3. server' = server  BY DEF Unmount, room
  <2> QED BY <1>1, <2>1, <2>2, <2>3 DEF WireOK, InRoom
<1>4. PageOK'  BY <1>1, OwnerIs, ConnAssumption DEF Unmount, PageOK, Sockets, RoomOK, Asking, page
<1>5. BoundsOK'  BY <1>1, BoundAssumption DEF Unmount, BoundsOK, bounds
<1>6. Asking'  BY <1>1, OwnerIs DEF Unmount, Asking, RoomOK, PageOK, room, page
<1>7. Apart'  BY <1>1, OwnerIs DEF Unmount, IInv, Apart, RoomOK, room
<1>8. Converging'
  <2>1. \A m \in Conns : InRoom(m)' <=> InRoom(m)  BY <1>1 DEF Unmount, InRoom, RoomOK, room
  <2>2. \A m \in Conns : Live(m)' => Live(m) /\ wire'[m] = wire[m] /\ seen'[owner[m]] = seen[owner[m]]
    BY <1>1, OwnerIs, ConnAssumption DEF Unmount, Live, RoomOK, WireOK, PageOK, room, page
  <2> QED BY <1>1, <2>1, <2>2, Silent DEF WireOK
<1> QED BY <1>2, <1>3, <1>4, <1>5, <1>6, <1>7, <1>8 DEF IInv, Types

LEMMA TicketExpiresKeeps == ASSUME IInv, NEW n \in Conns, TicketExpires(n) PROVE IInv'
<1>1. RoomOK /\ WireOK /\ PageOK /\ BoundsOK /\ Asking  BY DEF IInv, Types
<1>2. RoomOK'  BY <1>1, OwnerIs DEF TicketExpires, RoomOK, Handled, room
<1>3. WireOK'  BY <1>1, OwnerIs DEF TicketExpires, WireOK, InRoom, RoomOK, Handled, PageOK, Sockets, room, page
<1>4. PageOK'  BY <1>1, OwnerIs, ConnAssumption DEF TicketExpires, PageOK, Sockets, RoomOK, Asking, page
<1>5. BoundsOK'  BY <1>1, BoundAssumption DEF TicketExpires, BoundsOK, bounds
<1>6. Asking'  BY <1>1, OwnerIs DEF TicketExpires, Asking, RoomOK, PageOK, room, page
<1>7. Apart'  BY <1>1, OwnerIs DEF TicketExpires, IInv, Apart, RoomOK, room
<1>8. Converging'
  <2>1. \A m \in Conns : InRoom(m)' <=> InRoom(m)  BY <1>1 DEF TicketExpires, InRoom, RoomOK, room
  <2>2. \A m \in Conns : Live(m)' => Live(m) /\ wire'[m] = wire[m] /\ seen'[owner[m]] = seen[owner[m]]
    BY <1>1, OwnerIs, ConnAssumption DEF TicketExpires, Live, RoomOK, WireOK, PageOK, room, page
  <2> QED BY <1>1, <2>1, <2>2, Silent DEF WireOK
<1> QED BY <1>2, <1>3, <1>4, <1>5, <1>6, <1>7, <1>8 DEF IInv, Types

LEMMA RevokeKeeps == ASSUME IInv, NEW d \in Devices, Revoke(d) PROVE IInv'
<1>1. RoomOK /\ WireOK /\ PageOK /\ BoundsOK /\ Asking  BY DEF IInv, Types
<1>2. RoomOK'  BY <1>1, OwnerIs DEF Revoke, RoomOK, Handled, room
<1>3. WireOK'  BY <1>1, OwnerIs DEF Revoke, WireOK, InRoom, RoomOK, Handled, PageOK, Sockets, room, page
<1>4. PageOK'  BY <1>1, OwnerIs, ConnAssumption DEF Revoke, PageOK, Sockets, RoomOK, Asking, page
<1>5. BoundsOK'  BY <1>1, BoundAssumption DEF Revoke, BoundsOK, bounds
<1>6. Asking'  BY <1>1, OwnerIs DEF Revoke, Asking, RoomOK, PageOK, room, page
<1>7. Apart'  BY <1>1, OwnerIs DEF Revoke, IInv, Apart, RoomOK, room
<1>8. Converging'
  <2>1. \A m \in Conns : InRoom(m)' <=> InRoom(m)  BY <1>1 DEF Revoke, InRoom, RoomOK, room
  <2>2. \A m \in Conns : Live(m)' => Live(m) /\ wire'[m] = wire[m] /\ seen'[owner[m]] = seen[owner[m]]
    BY <1>1, OwnerIs, ConnAssumption DEF Revoke, Live, RoomOK, WireOK, PageOK, room, page
  <2> QED BY <1>1, <2>1, <2>2, Silent DEF WireOK
<1> QED BY <1>2, <1>3, <1>4, <1>5, <1>6, <1>7, <1>8 DEF IInv, Types

\* The server's sockets are gone: nobody is there, and nothing is under way.
LEMMA RestartKeeps == ASSUME IInv, Restart PROVE IInv'
<1>1. RoomOK /\ WireOK /\ PageOK /\ BoundsOK /\ Asking  BY DEF IInv, Types
<1>2. /\ wire' = [m \in Conns |-> << >>] /\ UNCHANGED <<revoked, cut, late, expired, page, clips>>
      /\ drops < MaxDrops /\ drops' = drops + 1
  BY DEF Restart
<1>3. \A m \in Conns : \/ server'[m] = "refused"
                       \/ server'[m] = server[m] /\ ~InRoom(m) /\ server[m] \notin {"checked", "parked"}
  BY DEF Restart
<1>4. RoomOK'
  <2>1. server' \in [Conns -> Handled]  BY <1>1 DEF Restart, RoomOK, Handled
  <2> QED BY <1>1, <1>2, <2>1 DEF RoomOK
<1>5. WireOK'  BY <1>2 DEF WireOK
<1>6. PageOK'  BY <1>1, <1>2 DEF PageOK, page
<1>7. BoundsOK'  BY <1>1, <1>2, BoundAssumption DEF BoundsOK
<1>8. Asking'  BY <1>1, <1>2, <1>3 DEF Asking, page
<1>9. \A m \in Conns : server'[m] \notin {"checked", "parked", "joined"}  BY <1>3 DEF InRoom
<1>10. Apart' /\ Converging'  BY <1>9 DEF Apart, Converging, Live
<1> QED BY <1>4, <1>5, <1>6, <1>7, <1>8, <1>10 DEF IInv, Types

\* A revocation's sockets are told, and are no longer open; they are in the room
\* until they close.
LEMMA CutKeeps == ASSUME IInv, NEW d \in Devices, Cut(d) PROVE IInv'
<1>1. RoomOK /\ WireOK /\ PageOK /\ BoundsOK /\ Asking  BY DEF IInv, Types
<1> PICK m : m = [t |-> "revoked", who |-> {}]  OBVIOUS
<1>2. m \in Message  BY DEF Message
<1>3. /\ UNCHANGED <<revoked, expired, page, bounds>> /\ cut' = cut \cup {d} /\ d \in revoked
      /\ late' = late \cup {n \in Conns : owner[n] = d /\ server[n] \in {"checked", "parked"}}
      /\ server' = [n \in Conns |-> IF n \in Its(d) THEN "closing" ELSE server[n]]
      /\ wire' = [n \in Conns |-> IF n \in Its(d) THEN Sends(wire, n, m)[n] ELSE wire[n]]
  BY DEF Cut
<1>4. \A n \in Conns : /\ n \in Its(d) <=> owner[n] = d /\ server[n] = "joined"
                       /\ server'[n] = IF n \in Its(d) THEN "closing" ELSE server[n]
                       /\ wire'[n] = IF n \in Its(d) /\ client[n] # "closed"
                                     THEN Append(wire[n], m) ELSE wire[n]
  BY <1>1, <1>3 DEF Its, Sends, WireOK
<1>5. RoomOK'
  <2>1. server' \in [Conns -> Handled]  BY <1>1, <1>3 DEF RoomOK, Handled
  <2> QED BY <1>1, <1>3, <2>1 DEF RoomOK
<1>6. WireOK'
  <2>0. \A n \in Conns : wire[n] \in Seq(Message) /\ Append(wire[n], m) \in Seq(Message)
    BY <1>1, <1>2 DEF WireOK
  <2>1. \A n \in Conns : wire'[n] \in Seq(Message)  BY <1>4, <2>0
  <2>2. wire' \in [Conns -> Seq(Message)]  BY <1>3, <2>1
  <2>3. \A n \in Conns : wire'[n] # << >> => InRoom(n)' /\ client'[n] # "closed"
    BY <1>1, <1>3, <1>4 DEF WireOK, InRoom, page
  <2> QED BY <2>2, <2>3 DEF WireOK
<1>7. PageOK' /\ BoundsOK'  BY <1>1, <1>3 DEF PageOK, BoundsOK, page, bounds
<1>8. Asking'  BY <1>1, <1>3, <1>4 DEF Asking, page
<1>9. Apart'
  <2>1. \A n \in Conns : server'[n] \in {"checked", "parked", "joined"} => server'[n] = server[n]
    BY <1>4
  <2>2. \A n \in Conns : owner[n] = d => server'[n] # "joined"  BY <1>4
  <2> QED BY <1>3, <2>1, <2>2 DEF IInv, Apart
<1>10. Converging'
  <2>1. \A n \in Conns : InRoom(n)' <=> InRoom(n)  BY <1>4 DEF InRoom
  <2>2. \A n \in Conns : Live(n)' => Live(n) /\ wire'[n] = wire[n] /\ seen'[owner[n]] = seen[owner[n]]
    BY <1>3, <1>4 DEF Live, page
  <2> QED BY <1>1, <2>1, <2>2, Silent DEF WireOK
<1> QED BY <1>5, <1>6, <1>7, <1>8, <1>9, <1>10 DEF IInv, Types

LEMMA BroadcastKeeps == ASSUME IInv, NEW d \in Devices, Broadcast(d) PROVE IInv'
<1>1. RoomOK /\ WireOK /\ PageOK /\ BoundsOK /\ Asking  BY DEF IInv, Types
<1> PICK m : m = [t |-> "clip", who |-> {d}]  OBVIOUS
<1>2. m \in Message /\ m.t = "clip"  BY DEF Message
<1>3. /\ UNCHANGED <<room, page, drops>> /\ wire' = Fanout(m, d) /\ clips < MaxClips /\ clips' = clips + 1
  BY DEF Broadcast
<1>4. /\ wire' \in [Conns -> Seq(Message)]
      /\ \A n \in Conns : wire'[n] = IF server[n] = "joined" /\ owner[n] # d /\ client[n] # "closed"
                                     THEN Append(wire[n], m) ELSE wire[n]
  BY <1>2, <1>3, FanoutIs DEF IInv
<1>5. RoomOK' /\ PageOK' /\ Asking'  BY <1>1, <1>3 DEF RoomOK, PageOK, Asking, room, page
<1>6. WireOK'  BY <1>1, <1>3, <1>4 DEF WireOK, InRoom, room, page
<1>7. BoundsOK'  BY <1>1, <1>3, BoundAssumption DEF BoundsOK
<1>8. Apart'  BY <1>3 DEF IInv, Apart, room
<1>9. Converging'
  <2>1. Present' = Present /\ seen' = seen  BY <1>3 DEF Present, InRoom, room, page
  <2>2. \A n \in Conns : Live(n)' <=> Live(n)  BY <1>3 DEF Live, room, page
  <2>3. \A n \in Conns : Live(n) =>
          wire'[n] = IF owner[n] # d THEN Append(wire[n], m) ELSE wire[n]
    BY <1>4 DEF Live
  <2>4. \A n \in Conns : Heard(Present \ {owner[n]}, m) = Present \ {owner[n]}
    BY <1>2 DEF Heard
  <2> QED BY <1>2, <2>1, <2>2, <2>3, <2>4, Announced
<1> QED BY <1>5, <1>6, <1>7, <1>8, <1>9 DEF IInv, Types

\* The new one's list is the room's; the others are told of it.
LEMMA EntersKeeps ==
    ASSUME IInv, NEW n \in Conns, Enters(n), server[n] \in {"checked", "parked"} PROVE IInv'
<1>1. RoomOK /\ WireOK /\ PageOK /\ BoundsOK /\ Asking  BY DEF IInv, Types
<1>0. PICK d, m, ready : /\ d = owner[n] /\ m = [t |-> "connected", who |-> {d}]
                         /\ ready = [t |-> "ready", who |-> Present \ {d}]
  OBVIOUS
<1>2. /\ d \in Devices /\ m \in Message /\ m.t = "connected" /\ m.who = {d}
      /\ ready \in Message /\ ready.t = "ready" /\ ready.who = Present \ {d}
      /\ owner[n] = d
  BY <1>0, OwnerIs, PresentIs DEF Message
<1>3. /\ server' = [server EXCEPT ![n] = "joined"] /\ wire' = Sends(Fanout(m, d), n, ready)
      /\ UNCHANGED <<revoked, cut, late, expired, page, bounds>>
  BY <1>0 DEF Enters
<1>4. \A k \in Conns : server'[k] = IF k = n THEN "joined" ELSE server[k]  BY <1>1, <1>3 DEF RoomOK
<1>5. wire[n] = << >>  BY <1>1 DEF WireOK, InRoom
<1>6. /\ wire' \in [Conns -> Seq(Message)]
      /\ \A k \in Conns \ {n} :
            wire'[k] = IF server[k] = "joined" /\ owner[k] # d /\ client[k] # "closed"
                       THEN Append(wire[k], m) ELSE wire[k]
      /\ wire'[n] = IF client[n] = "closed" THEN << >> ELSE Append(<< >>, ready)
  <2> PICK f : f = Fanout(m, d)  OBVIOUS
  <2>1. /\ f \in [Conns -> Seq(Message)]
        /\ \A k \in Conns : f[k] = IF server[k] = "joined" /\ owner[k] # d /\ client[k] # "closed"
                                   THEN Append(wire[k], m) ELSE wire[k]
    <3>1. Types  BY DEF IInv
    <3> QED BY <1>2, <3>1, FanoutIs
  <2>2. f[n] = << >>  BY <1>5, <2>1
  <2>3. wire' = IF client[n] = "closed" THEN f ELSE [f EXCEPT ![n] = Append(<< >>, ready)]
    BY <1>3, <2>1, <2>2 DEF Sends
  <2>4. Append(<< >>, ready) \in Seq(Message)  BY <1>2
  <2> QED BY <2>1, <2>2, <2>3, <2>4
<1>7. RoomOK'  BY <1>1, <1>3 DEF RoomOK, Handled
<1>8. WireOK'  BY <1>1, <1>3, <1>4, <1>6 DEF WireOK, InRoom, page
<1>9. PageOK' /\ BoundsOK'  BY <1>1, <1>3 DEF PageOK, BoundsOK, page, bounds
<1>10. Asking'  BY <1>1, <1>3, <1>4 DEF Asking, page
<1>11. Apart'  BY <1>3, <1>4 DEF IInv, Apart
<1>12. Converging'
  <2>1. Present' = Present \cup {d}
    <3>1. \A k \in Conns : InRoom(k)' <=> InRoom(k) \/ k = n  BY <1>4 DEF InRoom
    <3> QED BY <1>2, <3>1 DEF Present
  <2>2. seen' = seen  BY <1>3 DEF page
  <2>3. \A k \in Conns : Live(k)' => (Live(k) /\ k # n) \/ k = n
    BY <1>3, <1>4 DEF Live, page
  <2>4. \A k \in Conns \ {n} : Live(k) =>
          wire'[k] = IF owner[k] # d THEN Append(wire[k], m) ELSE wire[k]
    BY <1>6 DEF Live
  <2>5. \A k \in Conns : owner[k] # d => Heard(Present \ {owner[k]}, m) = Present' \ {owner[k]}
    BY <1>2, <2>1 DEF Heard
  <2>6. \A k \in Conns : owner[k] = d => Present' \ {owner[k]} = Present \ {owner[k]}
    BY <2>1
  <2>7. ~Live(n)  BY DEF Live
  <2>8. ASSUME Live(n)' PROVE WillShow(seen[owner[n]], wire'[n]) = Present' \ {owner[n]}
    <3>1. wire'[n] = Append(<< >>, ready)  BY <1>3, <1>6, <2>8 DEF Live, page
    <3>2. seen[d] \in SUBSET Devices  BY <1>1, <1>2 DEF PageOK
    <3>3. << >> \in Seq(Message)  OBVIOUS
    <3>4. WillShow(seen[d], wire'[n]) = Heard(WillShow(seen[d], << >>), ready)
      BY <1>2, <3>1, <3>2, <3>3, WillShowAppended
    <3>5. Heard(WillShow(seen[d], << >>), ready) = Present \ {d}  BY <1>2 DEF Heard
    <3> QED BY <1>2, <2>1, <3>4, <3>5
  <2>9. \A k \in Conns : Live(k)' /\ Live(k) =>
          wire'[k] = IF owner[k] # d THEN Append(wire[k], m) ELSE wire[k]
    BY <2>4, <2>7
  <2>10. \A k \in Conns : Live(k)' /\ Live(k) =>
           Present' \ {owner[k]} = IF owner[k] # d THEN Heard(Present \ {owner[k]}, m)
                                   ELSE Present \ {owner[k]}
    BY <2>5, <2>6
  <2>11. \A k \in Conns : Live(k)' /\ ~Live(k) =>
           WillShow(seen[owner[k]], wire'[k]) = Present' \ {owner[k]}
    BY <2>3, <2>8
  <2> QED BY <1>2, <2>2, <2>9, <2>10, <2>11, Announced
<1> QED BY <1>7, <1>8, <1>9, <1>10, <1>11, <1>12 DEF IInv, Types

\* A departure is announced when it is the device's last socket.
LEMMA LeaveKeeps == ASSUME IInv, NEW n \in Conns, Leave(n) PROVE IInv'
<1>1. RoomOK /\ WireOK /\ PageOK /\ BoundsOK /\ Asking  BY DEF IInv, Types
<1>0. PICK d, m : d = owner[n] /\ m = [t |-> "disconnected", who |-> {d}]  OBVIOUS
<1>2. d \in Devices /\ m \in Message /\ m.t = "disconnected" /\ m.who = {d} /\ owner[n] = d
  BY <1>0, OwnerIs DEF Message
<1>3. /\ InRoom(n) /\ client[n] = "closed" /\ server' = [server EXCEPT ![n] = "none"]
      /\ client' = [client EXCEPT ![n] = "none"]
      /\ wire' = IF StillHere(n) THEN wire ELSE Fanout(m, d)
      /\ UNCHANGED <<revoked, cut, late, expired, conn, status, over, seen, bounds>>
  BY <1>0 DEF Leave
<1>4. \A k \in Conns : /\ server'[k] = IF k = n THEN "none" ELSE server[k]
                       /\ client'[k] = IF k = n THEN "none" ELSE client[k]
  BY <1>1, <1>3 DEF RoomOK, PageOK
<1>5. /\ wire' \in [Conns -> Seq(Message)]
      /\ \A k \in Conns : wire'[k] = IF /\ ~StillHere(n) /\ server[k] = "joined"
                                        /\ owner[k] # d /\ client[k] # "closed"
                                     THEN Append(wire[k], m) ELSE wire[k]
  <2>1. CASE StillHere(n)  BY <1>1, <1>3, <2>1 DEF WireOK
  <2>2. CASE ~StillHere(n)
    <3>1. Types  BY DEF IInv
    <3>2. wire' = Fanout(m, d)  BY <1>3, <2>2
    <3>3. /\ Fanout(m, d) \in [Conns -> Seq(Message)]
          /\ \A k \in Conns : Fanout(m, d)[k] =
                IF server[k] = "joined" /\ owner[k] # d /\ client[k] # "closed"
                THEN Append(wire[k], m) ELSE wire[k]
      BY <1>2, <3>1, FanoutIs
    <3> QED BY <2>2, <3>2, <3>3
  <2> QED BY <2>1, <2>2
<1>6. RoomOK'  BY <1>1, <1>3 DEF RoomOK, Handled
<1>7. WireOK'
  <2>1. wire'[n] = << >>  BY <1>1, <1>3, <1>5 DEF WireOK
  <2> QED BY <1>1, <1>4, <1>5, <2>1 DEF WireOK, InRoom
<1>8. PageOK' /\ BoundsOK'  BY <1>1, <1>3 DEF PageOK, BoundsOK, bounds, Sockets
<1>9. Asking'  BY <1>1, <1>3, <1>4 DEF Asking
<1>10. Apart'  BY <1>3, <1>4 DEF IInv, Apart
<1>11. Converging'
  <2>1. \A k \in Conns : InRoom(k)' <=> InRoom(k) /\ k # n  BY <1>4 DEF InRoom
  <2>2. \A k \in Conns : Live(k)' => Live(k) /\ k # n  BY <1>3, <1>4 DEF Live
  <2>3. CASE StillHere(n)
    <3>1. Present' = Present  BY <1>3, <2>1, <2>3 DEF Present, StillHere
    <3> QED BY <1>3, <2>2, <2>3, <3>1 DEF Converging, IInv
  <2>4. CASE ~StillHere(n)
    <3>1. Present' = Present \ {d}  BY <1>2, <1>3, <2>1, <2>4 DEF Present, StillHere
    <3>2. \A k \in Conns : owner[k] # d => Heard(Present \ {owner[k]}, m) = Present' \ {owner[k]}
      BY <1>2, <3>1 DEF Heard
    <3>3. \A k \in Conns : owner[k] = d => Present' \ {owner[k]} = Present \ {owner[k]}  BY <3>1
    <3>4. \A k \in Conns : Live(k) =>
            wire'[k] = IF owner[k] # d THEN Append(wire[k], m) ELSE wire[k]
      BY <1>5, <2>4 DEF Live
    <3>5. \A k \in Conns : Live(k)' /\ Live(k) =>
            wire'[k] = IF owner[k] # d THEN Append(wire[k], m) ELSE wire[k]
      BY <3>4
    <3>6. \A k \in Conns : Live(k)' /\ Live(k) =>
            Present' \ {owner[k]} = IF owner[k] # d THEN Heard(Present \ {owner[k]}, m)
                                    ELSE Present \ {owner[k]}
      BY <3>2, <3>3
    <3>7. \A k \in Conns : Live(k)' /\ ~Live(k) =>
            WillShow(seen[owner[k]], wire'[k]) = Present' \ {owner[k]}
      BY <2>2
    <3>8. seen' = seen  BY <1>3
    <3> QED BY <1>2, <3>5, <3>6, <3>7, <3>8, Announced
  <2> QED BY <2>3, <2>4
<1> QED BY <1>6, <1>7, <1>8, <1>9, <1>10, <1>11 DEF IInv, Types

\* What is read from the wire is heard; `revoked` ends the connection.
LEMMA DeliverKeeps == ASSUME IInv, NEW n \in Conns, Deliver(n) PROVE IInv'
<1>1. RoomOK /\ WireOK /\ PageOK /\ BoundsOK /\ Asking  BY DEF IInv, Types
<1>0. PICK d, m : d = owner[n] /\ m = Head(wire[n])  OBVIOUS
<1>2. /\ owner[n] = d /\ d \in Devices /\ wire[n] \in Seq(Message) /\ wire[n] # << >>
      /\ m \in Message /\ Tail(wire[n]) \in Seq(Message)
  BY <1>0, <1>1, OwnerIs DEF Deliver, WireOK
<1>3. client[n] = "open" /\ UNCHANGED <<room, bounds>>  BY DEF Deliver
<1>4. \/ /\ conn[d] = n /\ m.t = "revoked" /\ seen' = [seen EXCEPT ![d] = Heard(@, m)]
         /\ status' = [status EXCEPT ![d] = "revoked"]
         /\ over' = over \cup {d} /\ conn' = [conn EXCEPT ![d] = NoConn]
         /\ client' = [client EXCEPT ![n] = "closed"] /\ wire' = [wire EXCEPT ![n] = << >>]
      \/ /\ conn[d] = n /\ seen' = [seen EXCEPT ![d] = Heard(@, m)]
         /\ wire' = [wire EXCEPT ![n] = Tail(wire[n])] /\ UNCHANGED <<status, over, conn, client>>
      \/ /\ conn[d] # n /\ wire' = [wire EXCEPT ![n] = Tail(wire[n])]
         /\ UNCHANGED <<seen, status, over, conn, client>>
  BY <1>0 DEF Deliver
<1>5. RoomOK' /\ BoundsOK' /\ Apart'
  BY <1>1, <1>3 DEF RoomOK, BoundsOK, IInv, Apart, room, bounds
<1>6. \A k \in Conns \ {n} : wire'[k] = wire[k] /\ client'[k] = client[k]
  BY <1>1, <1>4 DEF WireOK, PageOK
<1>7. WireOK'
  <2>1. << >> \in Seq(Message)  OBVIOUS
  <2>2. wire' \in [Conns -> Seq(Message)]  BY <1>1, <1>2, <1>4, <2>1 DEF WireOK
  <2>3. InRoom(n) /\ \A k \in Conns : InRoom(k)' <=> InRoom(k)
    BY <1>1, <1>2, <1>3 DEF WireOK, InRoom, room
  <2>4. wire'[n] # << >> => client'[n] # "closed"  BY <1>1, <1>3, <1>4 DEF WireOK, PageOK
  <2> QED BY <1>1, <1>6, <2>2, <2>3, <2>4 DEF WireOK
<1>8. Heard(seen[d], m) \in SUBSET Devices
  BY <1>1, <1>2, HeardIs DEF PageOK
<1>9. PageOK'
  <2>1. seen' \in [Devices -> SUBSET Devices]  BY <1>1, <1>4, <1>8 DEF PageOK
  <2>2. client' \in [Conns -> Sockets] /\ over' \subseteq Devices
    BY <1>1, <1>2, <1>4 DEF PageOK, Sockets
  <2>3. status' \in [Devices -> {"connecting", "online", "offline", "revoked"}]
    BY <1>1, <1>4 DEF PageOK
  <2>4. /\ conn' \in [Devices -> Conns \cup {NoConn}]
        /\ \A e \in Devices : conn'[e] # NoConn => conn'[e] = conn[e] /\ (e \in over' => e \in over)
    BY <1>1, <1>4 DEF PageOK
  <2> QED BY <1>1, <2>1, <2>2, <2>3, <2>4 DEF PageOK
<1>10. Asking'
  <2> SUFFICES ASSUME NEW k \in Conns, server'[k] \in {"asked", "denied"}
               PROVE  client'[k] = "none" /\ (conn'[owner[k]] = k \/ owner[k] \in over')
    BY DEF Asking
  <2>1. client[k] = "none" /\ (conn[owner[k]] = k \/ owner[k] \in over) /\ k # n
    BY <1>1, <1>3 DEF Asking, room
  <2>2. conn[owner[k]] = k => conn'[owner[k]] = k \/ owner[k] \in over'
    BY <1>1, <1>4, OwnerIs DEF PageOK
  <2>3. over \subseteq over'  BY <1>4
  <2> QED BY <1>6, <2>1, <2>2, <2>3
<1>11. Converging'
  <2>1. Present' = Present  BY <1>3 DEF Present, InRoom, room
  <2> SUFFICES ASSUME NEW k \in Conns, Live(k)'
               PROVE  WillShow(seen'[owner[k]], wire'[k]) = Present \ {owner[k]}
    BY <2>1 DEF Converging
  <2>2. Live(k)
    <3>1. conn'[owner[k]] = k => conn[owner[k]] = k
      BY <1>1, <1>4, OwnerIs, ConnAssumption DEF PageOK
    <3>2. server'[k] = server[k]  BY <1>3 DEF room
    <3> QED BY <1>3, <1>6, <3>1, <3>2 DEF Live
  <2>3. WillShow(seen[owner[k]], wire[k]) = Present \ {owner[k]}  BY <2>2 DEF IInv, Converging
  <2>4. CASE k = n
    <3>1. conn[d] = n  BY <1>2, <2>2, <2>4 DEF Live
    <3>2. conn'[d] = n  BY <1>2, <2>4 DEF Live
    <3>3. seen'[d] = Heard(seen[d], m) /\ wire'[n] = Tail(wire[n])
      BY <1>1, <1>2, <1>4, <3>1, <3>2, ConnAssumption DEF PageOK, WireOK
    <3>4. seen[d] \in SUBSET Devices  BY <1>1, <1>2 DEF PageOK
    <3>5. WillShow(Heard(seen[d], m), Tail(wire[n])) = WillShow(seen[d], wire[n])
      BY <1>0, <1>2, <3>4, WillShowHeard
    <3> QED BY <1>2, <2>3, <2>4, <3>3, <3>5
  <2>5. CASE k # n
    <3>1. seen'[owner[k]] = seen[owner[k]]
      BY <1>1, <1>2, <1>4, <2>2, <2>5, OwnerIs DEF Live, PageOK
    <3> QED BY <1>6, <2>3, <2>5, <3>1
  <2> QED BY <2>4, <2>5
<1> QED BY <1>5, <1>7, <1>9, <1>10, <1>11 DEF IInv, Types

-----------------------------------------------------------------------------
(* The invariant holds from the start, and every step keeps it.            *)

LEMMA Initially == ASSUME Init PROVE IInv
<1>1. RoomOK /\ PageOK /\ Asking
  BY DEF Init, RoomOK, PageOK, Asking, Handled, Sockets
<1>2. BoundsOK  BY BoundAssumption DEF Init, BoundsOK
<1>3. WireOK
  <2>1. << >> \in Seq(Message)  OBVIOUS
  <2> QED BY <2>1 DEF Init, WireOK
<1>4. Apart /\ Converging  BY DEF Init, Apart, Converging, Live
<1> QED BY <1>1, <1>2, <1>3, <1>4 DEF IInv, Types

LEMMA StutterKeeps == ASSUME IInv, UNCHANGED vars PROVE IInv'
<1>1. UNCHANGED <<revoked, cut, late, server, expired, wire, client, conn, status, over, seen, drops, clips>>
  BY DEF vars, room, page, bounds
<1>2. Types'
  BY <1>1 DEF IInv, Types, RoomOK, WireOK, PageOK, BoundsOK, Asking, InRoom
<1>3. Apart'  BY <1>1 DEF IInv, Apart
<1>4. Converging'
  <2>1. Present' = Present  BY <1>1 DEF Present, InRoom
  <2>2. \A n \in Conns : Live(n)' <=> Live(n)  BY <1>1 DEF Live
  <2> QED BY <1>1, <2>1, <2>2 DEF IInv, Converging
<1> QED BY <1>2, <1>3, <1>4 DEF IInv

LEMMA Inductive == IInv /\ [Next]_vars => IInv'
<1> SUFFICES ASSUME IInv, [Next]_vars PROVE IInv'  OBVIOUS
<1>1. ASSUME NEW d \in Devices, Connects(d) PROVE IInv'
  BY <1>1, ConnectKeeps DEF Connects
<1>2. ASSUME NEW d \in Devices, Broadcast(d) \/ Unmount(d) \/ Revoke(d) \/ Cut(d) PROVE IInv'
  BY <1>2, BroadcastKeeps, UnmountKeeps, RevokeKeeps, CutKeeps
<1>3. ASSUME NEW n \in Conns, Join(n) \/ Accept(n) PROVE IInv'
  BY <1>3, EntersKeeps DEF Join, Accept
<1>4. ASSUME NEW n \in Conns, Progress(n) PROVE IInv'
  BY <1>3, <1>4, IssueKeeps, DialKeeps, DeniedKeeps, ClaimKeeps, CheckKeeps, OpenedKeeps,
     DeliverKeeps, LeaveKeeps, ClosedKeeps, ForgottenKeeps
  DEF Progress
<1>5. ASSUME NEW n \in Conns, Park(n) \/ ParkExpires(n) \/ TicketExpires(n) \/ Drop(n) PROVE IInv'
  BY <1>5, ParkKeeps, ParkExpiresKeeps, TicketExpiresKeeps, DropKeeps
<1>6. CASE Restart  BY <1>6, RestartKeeps
<1>7. CASE UNCHANGED vars  BY <1>7, StutterKeeps
<1> QED BY <1>1, <1>2, <1>4, <1>5, <1>6, <1>7 DEF Next

\* The inductive invariant, for any connections, devices and drops.
THEOREM Invariant == Spec => []IInv
BY Initially, Inductive, PTL DEF Spec

-----------------------------------------------------------------------------
(* What a reader of Sync should know.                                      *)

\* Every variable has its type; the hook of a device holds a connection of its
\* own, and what is not in the room has nothing on its wire.
THEOREM TypeCorrect == Spec => []TypeOK
<1>1. IInv => TypeOK
  BY DEF IInv, Types, RoomOK, WireOK, PageOK, BoundsOK, Handled, Sockets, TypeOK
<1> QED BY <1>1, Invariant, PTL

\* Whatever connects, drops and is announced in whatever order, a browser that
\* has read what is on its way shows who has a socket in the room.
THEOREM PresenceConvergesCorrect == Spec => []PresenceConverges
<1>1. IInv => PresenceConverges  BY DEF IInv, Converging, Live, PresenceConverges
<1> QED BY <1>1, Invariant, PTL

\* A device whose revocation is answered has no socket in the room, unless that
\* was between its check and the room when the revocation closed the others.
THEOREM RevokedIsCutOffCorrect == Spec => []RevokedIsCutOff
<1>1. IInv => RevokedIsCutOff  BY DEF IInv, Apart, RevokedIsCutOff
<1> QED BY <1>1, Invariant, PTL

-----------------------------------------------------------------------------
(* The agent: nothing received is sent back.                               *)

\* An event, by how far it is handled.
HandlerFits(w) ==
    /\ w \in Handler
    /\ w.pc \notin {"idle", "list"} => w.c \in Contents
    /\ w.pc = "hash" => w.c \in Texts
    /\ w.pc = "fetch" => w.c \in Images \cup Files
    /\ w.pc = "back" => w.c \in Images
    /\ w.pc \in {"hash", "fetch", "write", "back"} =>
         w.tag = IF w.c \in Texts THEN TextTag(w.c, w.tag[2]) ELSE DigestTag(w.c)

PollFits ==
    /\ poll.pc \in {"hash", "files", "found", "files tag", "check", "digest", "sent"} =>
         poll.c \in Contents
    /\ poll.pc \in {"hash", "files"} => ReadsAsText(poll.c)
    /\ poll.pc = "files tag" => poll.c \in Files
    /\ poll.pc \in {"check", "digest"} =>
         poll.c \in Images \cup Files /\ poll.tag = DigestTag(poll.c)

\* The guard is being primed for a new key.
Anew == refreshing.pc \in {"read", "prime"}

\* What another device copied, and this one wrote, is told from what its user
\* copied by a guard, or will be once the guard is primed.
Known(c) ==
    /\ c \in Texts =>
         \/ ~Anew /\ lastHandled = TextTag(c, keys)
         \/ refreshing.pc = "read"
         \/ refreshing.pc = "prime" /\ refreshing.c = c
    /\ c \in Images => ~Anew /\ lastHandled = DigestTag(c)
    /\ c \in Files => receivedTag = DigestTag(c)

Writer(h) == handler[h].pc \in {"write", "back"}

\* One event is written at a time, guarded, and no poll goes on meanwhile.
Written ==
    /\ \A h \in Handlers : Writer(h) => writing
    /\ \A h, k \in Handlers : Writer(h) /\ Writer(k) => h = k
    /\ writing => refreshing.pc # "prime" /\ (poll.pc # "idle" => poll.stale)
    /\ \A h \in Handlers : Writer(h) => Known(handler[h].c)
    /\ \A h \in Handlers : handler[h].pc = "back" => clipboard.own \/ clipboard.c \in Images

\* What the clipboard holds is the user's, or guarded.
Guarded == ~writing /\ ~clipboard.own => clipboard.c \in Contents /\ Known(clipboard.c)

\* A read that was not overtaken is of what is there, or was until the user
\* copied something else; what is not the user's the guards know.
PollKnows ==
    ~poll.stale =>
      /\ poll.pc \in {"hash", "files", "found", "files tag", "look", "check", "digest"} => ~Anew
      /\ poll.pc \in {"hash", "files", "found", "files tag", "check", "digest", "sent"} =>
            clipboard.own \/ (~poll.own /\ clipboard.c = poll.c)
      /\ poll.pc \in {"hash", "files", "found", "files tag", "check", "digest"} /\ ~poll.own =>
            /\ poll.c \in Texts => poll.pc = "hash" /\ lastHandled = poll.tag
            /\ poll.c \in Images => poll.pc \in {"check", "digest"} /\ lastHandled = poll.tag
            /\ poll.c \in Files => receivedTag = DigestTag(poll.c)

\* What holds until an order of steps is met that the guards do not cover.
Unslipped == ~slipped => Written /\ Guarded /\ PollKnows /\ NoEcho

\* What the constants are taken to be.
Constants ==
    /\ NoContent \notin Contents
    /\ Texts \cap Images = {} /\ Texts \cap Files = {} /\ Images \cap Files = {}
    /\ Back \in [Images -> Images]
    /\ FilesOfferText \in BOOLEAN /\ Watches \in BOOLEAN
    /\ ImagePollEvery \in Nat \ {0} /\ MaxEpoch \in Nat \ {0} /\ MaxFails \in Nat
    /\ Found \subseteq Texts \cup {NoContent}
    /\ Copied \subseteq Contents /\ Received \subseteq Contents
    /\ MaxCopies \in Nat /\ MaxReceived \in Nat

AgentInv ==
    /\ Constants /\ AgentTypeOK /\ PollFits
    /\ \A h \in Handlers : HandlerFits(handler[h])
    /\ Unslipped

-----------------------------------------------------------------------------
Content == Contents \cup {NoContent}
PollPcs == {"idle", "read", "hash", "files", "found", "files tag", "look", "check", "digest",
            "sent", "await key"}
HandlerPcs == {"idle", "list", "open", "await key", "hash", "fetch", "write", "back"}

LEMMA TagsAre ==
    ASSUME Constants
    PROVE  /\ \A c \in Content, e \in 0..MaxEpoch : TextTag(c, e) \in Tags
           /\ \A c \in Content : DigestTag(c) \in Tags
           /\ NoTag \in Tags
BY DEF Constants, Content, TextTag, DigestTag, NoTag, Tags

LEMMA TagsDiffer ==
    ASSUME Constants, NEW c \in Contents, NEW e \in Epochs
    PROVE  /\ TextTag(c, e) # NoTag /\ ~IsDigest(TextTag(c, e))
           /\ DigestTag(c) # NoTag /\ IsDigest(DigestTag(c))
BY DEF Constants, TextTag, DigestTag, NoTag, IsDigest, Epochs

LEMMA PollTyped ==
    ASSUME NEW p \in Poll
    PROVE  /\ p.pc \in PollPcs /\ p.after \in BOOLEAN /\ p.stale \in BOOLEAN
           /\ p.c \in Content /\ p.own \in BOOLEAN /\ p.tag \in Tags /\ p.e \in Epochs
BY DEF Poll, PollPcs, Content

LEMMA HandlerTyped ==
    ASSUME NEW w \in Handler
    PROVE  w.pc \in HandlerPcs /\ w.c \in Content /\ w.e \in Epochs /\ w.tag \in Tags
BY DEF Handler, HandlerPcs, Content

LEMMA RefreshTyped ==
    ASSUME NEW r \in Refresh
    PROVE  r.pc \in {"idle", "fetch", "read", "prime"} /\ r.c \in Content /\ r.was \in Tags
BY DEF Refresh, Content

\* What the parts of a state are.
LEMMA StateTyped ==
    ASSUME AgentInv
    PROVE  /\ Constants
           /\ clipboard.c \in Content /\ clipboard.own \in BOOLEAN
           /\ lastHandled \in Tags /\ candidate \in Tags /\ receivedTag \in Tags
           /\ keys \in Epochs /\ epoch \in Epochs /\ keys <= epoch
           /\ poll \in Poll /\ handler \in [Handlers -> Handler] /\ refreshing \in Refresh
           /\ writing \in BOOLEAN /\ slipped \in BOOLEAN /\ unsent \in BOOLEAN
BY DEF AgentInv, AgentTypeOK, Content

LEMMA FreeTyped ==
    ASSUME Constants
    PROVE  /\ Quiet \in Poll /\ Free \in Handler /\ NoRefresh \in Refresh
           /\ Quiet.pc = "idle" /\ Quiet.stale = FALSE /\ Free.pc = "idle" /\ NoRefresh.pc = "idle"
BY TagsAre DEF Constants, Quiet, Poll, Free, Handler, NoRefresh, Refresh, Epochs, Content

-----------------------------------------------------------------------------
(* What a step leaves alone.                                               *)

LEMMA Together ==
    ASSUME AgentInv, AgentTypeOK', PollFits', \A h \in Handlers : HandlerFits(handler'[h]), Unslipped'
    PROVE  AgentInv'
<1>1. Constants' /\ \A h \in Handlers : HandlerFits(handler[h])'
  BY DEF AgentInv, Constants, HandlerFits, Handler, TextTag, DigestTag
<1> QED BY <1>1 DEF AgentInv

SameGuards == UNCHANGED <<clipboard, lastHandled, receivedTag, writing, keys>>
SameWriters ==
    \A h \in Handlers :
      handler'[h].pc \in {"write", "back"} => handler'[h] = handler[h]
SameRefresh ==
    \/ ~Anew /\ ~Anew'
    \/ refreshing'.pc = refreshing.pc /\ refreshing'.c = refreshing.c
Slipped == slipped' \/ ~slipped

LEMMA KnownKept ==
    ASSUME NEW c, Known(c), SameGuards, SameRefresh
    PROVE  Known(c)'
BY DEF Known, SameGuards, SameRefresh, Anew

LEMMA WrittenKept ==
    ASSUME AgentInv, Slipped, ~slipped', SameGuards, SameWriters, SameRefresh,
           writing => poll'.pc = "idle" \/ poll'.stale
    PROVE  Written' /\ Guarded'
<1>1. Written /\ Guarded /\ ~slipped  BY DEF AgentInv, Unslipped, Slipped
<1>2. clipboard' = clipboard /\ writing' = writing  BY DEF SameGuards
<1>3. \A h \in Handlers : Writer(h)' => Writer(h) /\ handler'[h] = handler[h]
  BY DEF SameWriters, Writer
<1>4. \A h \in Handlers : Writer(h)' => Known(handler[h].c)'
  BY <1>1, <1>3, KnownKept DEF Written
<1>5. refreshing'.pc = "prime" => refreshing.pc = "prime"  BY DEF SameRefresh, Anew
<1>6. Written'
  <2>1. (\A h \in Handlers : Writer(h) => writing)'  BY <1>1, <1>2, <1>3 DEF Written
  <2>2. (\A h, k \in Handlers : Writer(h) /\ Writer(k) => h = k)'  BY <1>1, <1>3 DEF Written
  <2>3. (writing => refreshing.pc # "prime" /\ (poll.pc # "idle" => poll.stale))'
    BY <1>1, <1>2, <1>5 DEF Written
  <2>4. (\A h \in Handlers : Writer(h) => Known(handler[h].c))'
    <3> SUFFICES ASSUME NEW h \in Handlers, Writer(h)'  PROVE Known(handler[h].c)'
      OBVIOUS
    <3>1. handler'[h].c = handler[h].c /\ Known(handler[h].c)  BY <1>1, <1>3 DEF Written
    <3>2. PICK c : c = handler[h].c  OBVIOUS
    <3>3. Known(c)'  BY <3>1, <3>2, KnownKept
    <3>4. handler'[h].c = c  BY <3>1, <3>2
    <3> QED BY <3>3, <3>4 DEF Known
  <2>5. (\A h \in Handlers : handler[h].pc = "back" => clipboard.own \/ clipboard.c \in Images)'
    BY <1>1, <1>2, <1>3 DEF Written, Writer
  <2> QED BY <2>1, <2>2, <2>3, <2>4, <2>5 DEF Written
<1>7. Guarded'
  <2> SUFFICES ASSUME ~writing', ~clipboard'.own
               PROVE  clipboard'.c \in Contents /\ Known(clipboard.c)'
    BY DEF Guarded
  <2>1. clipboard.c \in Contents /\ Known(clipboard.c)  BY <1>1, <1>2 DEF Guarded
  <2>2. PICK c : c = clipboard.c  OBVIOUS
  <2>3. Known(c)'  BY <2>1, <2>2, KnownKept
  <2> QED BY <1>2, <2>1, <2>2, <2>3 DEF Known
<1> QED BY <1>6, <1>7

LEMMA PollKept ==
    ASSUME AgentInv, Slipped, ~slipped', SameGuards, SameRefresh, poll' = poll
    PROVE  PollKnows' /\ NoEcho'
<1>1. PollKnows /\ NoEcho /\ ~slipped  BY DEF AgentInv, Unslipped, Slipped
<1>2. /\ clipboard' = clipboard /\ lastHandled' = lastHandled /\ receivedTag' = receivedTag
      /\ (Anew' <=> Anew)
  BY DEF SameGuards, SameRefresh, Anew
<1>3. NoEcho'  BY <1>1 DEF NoEcho
<1>4. PollKnows'  BY <1>1, <1>2 DEF PollKnows
<1> QED BY <1>3, <1>4

\* A step that leaves the guards, and what is being polled and written, alone.
LEMMA UnslippedKept ==
    ASSUME AgentInv, Slipped, SameGuards, SameWriters, SameRefresh, poll' = poll
    PROVE  Unslipped'
<1> SUFFICES ASSUME ~slipped'  PROVE (Written /\ Guarded /\ PollKnows /\ NoEcho)'
  BY DEF Unslipped
<1>1. writing => poll'.pc = "idle" \/ poll'.stale
  BY DEF AgentInv, Unslipped, Slipped, Written
<1> QED BY <1>1, WrittenKept, PollKept

\* A poll that has not read anything.
LEMMA PollBegins ==
    ASSUME AgentInv, Slipped, SameGuards, SameWriters, SameRefresh,
           poll'.pc \in {"idle", "read", "await key"},
           writing => poll'.pc = "idle" \/ poll'.stale
    PROVE  Unslipped'
<1> SUFFICES ASSUME ~slipped'  PROVE (Written /\ Guarded /\ PollKnows /\ NoEcho)'
  BY DEF Unslipped
<1>1. (PollKnows /\ NoEcho)'  BY DEF PollKnows, NoEcho
<1> QED BY <1>1, WrittenKept

LEMMA HandlersKept ==
    ASSUME AgentInv, handler' = handler
    PROVE  /\ \A h \in Handlers : HandlerFits(handler'[h])
           /\ SameWriters
BY DEF AgentInv, SameWriters

\* A step that leaves the events and the poll alone, and the guards.
LEMMA OtherStep ==
    ASSUME AgentInv, AgentTypeOK', handler' = handler, poll' = poll, slipped' = slipped,
           SameGuards, SameRefresh
    PROVE  AgentInv'
<1>1. PollFits'  BY DEF AgentInv, PollFits
<1> QED BY <1>1, HandlersKept, UnslippedKept, Together DEF Slipped

\* ... and one that leaves a poll that has read nothing.
LEMMA PollIdles ==
    ASSUME AgentInv, AgentTypeOK', handler' = handler, Slipped, SameGuards, SameRefresh,
           poll'.pc \in {"idle", "read", "await key"},
           writing => poll'.pc = "idle" \/ poll'.stale
    PROVE  AgentInv'
<1>1. PollFits'  BY DEF PollFits
<1> QED BY <1>1, HandlersKept, PollBegins, Together

-----------------------------------------------------------------------------
(* The world around the daemon.                                            *)

LEMMA StutterFits == AgentInv /\ UNCHANGED agentVars => AgentInv'
<1> SUFFICES ASSUME AgentInv, UNCHANGED agentVars PROVE AgentInv'  OBVIOUS
<1>1. AgentTypeOK'
  BY DEF AgentInv, AgentTypeOK, agentVars, machine, vault, guards, watch, socket, slips
<1>2. SameGuards /\ SameRefresh /\ handler' = handler /\ poll' = poll /\ slipped' = slipped
  BY DEF SameGuards, SameRefresh, agentVars, machine, guards, slips
<1> QED BY <1>1, <1>2, OtherStep

LEMMA RotatesFits == AgentInv /\ Rotates => AgentInv'
<1> SUFFICES ASSUME AgentInv, Rotates PROVE AgentInv'  OBVIOUS
<1>1. refreshing' = refreshing \/ (refreshing.pc = "idle" /\ refreshing' = [refreshing EXCEPT !.pc = "fetch"])
  BY DEF Rotates, Asks
<1>2. refreshing' \in Refresh /\ SameRefresh
  BY <1>1, StateTyped DEF Refresh, SameRefresh, Anew
<1>3. AgentTypeOK'
  BY <1>2, StateTyped DEF AgentInv, AgentTypeOK, Rotates, Epochs, Constants, machine, guards, watch, socket, slips
<1>4. SameGuards /\ handler' = handler /\ poll' = poll /\ slipped' = slipped
  BY DEF SameGuards, Rotates, machine, guards, slips
<1> QED BY <1>2, <1>3, <1>4, OtherStep

LEMMA TickFits == AgentInv /\ Tick => AgentInv'
<1> SUFFICES ASSUME AgentInv, Tick PROVE AgentInv'  OBVIOUS
<1>1. poll' = [Quiet EXCEPT !.pc = "read", !.after = FALSE] /\ ~writing  BY DEF Tick, Starts, Busy
<1>2. poll' \in Poll /\ poll'.pc = "read"
  BY <1>1, StateTyped, FreeTyped DEF Poll, Quiet
<1>3. AgentTypeOK'
  BY <1>2 DEF AgentInv, AgentTypeOK, Tick, machine, vault, guards, watch, socket, slips
<1>4. SameGuards /\ SameRefresh /\ handler' = handler /\ Slipped
  BY DEF SameGuards, SameRefresh, Tick, machine, guards, slips, Slipped
<1> QED BY <1>1, <1>2, <1>3, <1>4, PollIdles

LEMMA QuietEndsFits == AgentInv /\ QuietEnds => AgentInv'
<1> SUFFICES ASSUME AgentInv, QuietEnds PROVE AgentInv'  OBVIOUS
<1>1. \/ poll' = poll /\ recheck' = TRUE
      \/ poll' = [Quiet EXCEPT !.pc = "read", !.after = TRUE] /\ ~writing /\ recheck' = recheck
  BY DEF QuietEnds, Starts, Busy
<1>2. poll' \in Poll /\ (poll' = poll \/ (~writing /\ poll'.pc = "read"))
  BY <1>1, StateTyped, FreeTyped DEF Poll, Quiet
<1>3. AgentTypeOK'
  BY <1>1, <1>2 DEF AgentInv, AgentTypeOK, QuietEnds, machine, vault, guards, watch, socket, slips
<1>4. SameGuards /\ SameRefresh /\ handler' = handler /\ slipped' = slipped
  BY DEF SameGuards, SameRefresh, QuietEnds, machine, guards, slips
<1> QED BY <1>2, <1>3, <1>4, PollIdles, OtherStep DEF Slipped

LEMMA ReadsAgainFits == AgentInv /\ ReadsAgain => AgentInv'
<1> SUFFICES ASSUME AgentInv, ReadsAgain PROVE AgentInv'  OBVIOUS
<1>1. \/ poll' = poll
      \/ poll' = [Quiet EXCEPT !.pc = "read", !.after = TRUE] /\ ~writing
  BY DEF ReadsAgain, Starts, Busy
<1>2. poll' \in Poll /\ (poll' = poll \/ (~writing /\ poll'.pc = "read"))
  BY <1>1, StateTyped, FreeTyped DEF Poll, Quiet
<1>3. AgentTypeOK'
  BY <1>1, <1>2 DEF AgentInv, AgentTypeOK, ReadsAgain, machine, vault, guards, watch, socket, slips
<1>4. SameGuards /\ SameRefresh /\ handler' = handler /\ slipped' = slipped
  BY DEF SameGuards, SameRefresh, ReadsAgain, machine, guards, slips
<1> QED BY <1>2, <1>3, <1>4, PollIdles, OtherStep DEF Slipped

\* The watcher, the socket and the end touch neither guards nor polls.
LEMMA AsideFits == AgentInv /\ (WatchEnds \/ Disconnects \/ Stops) => AgentInv'
<1> SUFFICES ASSUME AgentInv, WatchEnds \/ Disconnects \/ Stops PROVE AgentInv'  OBVIOUS
<1>1. AgentTypeOK'
  <2>1. fails' \in 0..MaxFails
    BY DEF AgentInv, AgentTypeOK, WatchEnds, Disconnects, Stops, Constants
  <2>2. {unsent, writing, recheck, quiet, watching, online, connectedBefore, stopped,
         slipped, swallowed}' \subseteq BOOLEAN
    BY DEF AgentInv, AgentTypeOK, WatchEnds, Disconnects, Stops, machine, watch, socket, slips
  <2>3. CASE WatchEnds
    BY <2>1, <2>2, <2>3 DEF AgentInv, AgentTypeOK, WatchEnds, machine, vault, guards
  <2>4. CASE Disconnects
    BY <2>1, <2>2, <2>4 DEF AgentInv, AgentTypeOK, Disconnects, machine, vault, guards
  <2>5. CASE Stops
    BY <2>1, <2>2, <2>5 DEF AgentInv, AgentTypeOK, Stops, machine, vault, guards
  <2> QED BY <2>3, <2>4, <2>5
<1>2. SameGuards /\ SameRefresh /\ handler' = handler /\ poll' = poll /\ slipped' = slipped
  BY DEF SameGuards, SameRefresh, WatchEnds, Disconnects, Stops, machine, guards, slips
<1> QED BY <1>1, <1>2, OtherStep

LEMMA RefreshFailsFits == AgentInv /\ RefreshFails => AgentInv'
<1> SUFFICES ASSUME AgentInv, RefreshFails PROVE AgentInv'  OBVIOUS
<1>1. refreshing' \in Refresh /\ SameRefresh
  BY StateTyped, FreeTyped DEF RefreshFails, SameRefresh, Anew
<1>2. AgentTypeOK'
  BY <1>1 DEF AgentInv, AgentTypeOK, RefreshFails, Constants, machine, vault, guards, watch, socket, slips
<1>3. SameGuards /\ handler' = handler /\ poll' = poll /\ slipped' = slipped
  BY DEF SameGuards, RefreshFails, machine, guards, slips
<1> QED BY <1>1, <1>2, <1>3, OtherStep

LEMMA UserCopiesFits == AgentInv /\ UserCopies => AgentInv'
<1> SUFFICES ASSUME AgentInv, UserCopies PROVE AgentInv'  OBVIOUS
<1>1. PICK c \in Copied : clipboard' = [c |-> c, own |-> TRUE]  BY DEF UserCopies
<1>2. c \in Contents  BY StateTyped DEF Constants
<1>3. unsent' \in BOOLEAN /\ quiet' \in BOOLEAN /\ fails' \in 0..MaxFails /\ copied' \in 0..MaxCopies
  <2>1. unsent' \in BOOLEAN  BY DEF AgentInv, AgentTypeOK, UserCopies
  <2>2. quiet' \in BOOLEAN  BY DEF AgentInv, AgentTypeOK, UserCopies, Announces
  <2>3. fails' \in 0..MaxFails /\ copied' \in 0..MaxCopies  BY DEF AgentInv, AgentTypeOK, UserCopies, Constants
  <2> QED BY <2>1, <2>2, <2>3
<1>4. /\ UNCHANGED <<vault, guards, watching, socket, writing, recheck, imageTick,
                     poll, handler, keys, refreshing, slips>>
  BY DEF UserCopies
<1>5. AgentTypeOK'
  <2>1. clipboard' \in [c : Contents \cup {NoContent}, own : BOOLEAN]  BY <1>1, <1>2
  <2> QED BY <1>3, <1>4, <2>1 DEF AgentInv, AgentTypeOK, vault, guards, socket, slips
<1>6. PollFits'  BY <1>4 DEF AgentInv, PollFits
<1>7. Unslipped'
  <2> SUFFICES ASSUME ~slipped'  PROVE (Written /\ Guarded /\ PollKnows /\ NoEcho)'
    BY DEF Unslipped
  <2>1. Written /\ PollKnows /\ NoEcho  BY <1>4 DEF AgentInv, Unslipped, slips
  <2>2. clipboard'.own = TRUE  BY <1>1
  <2>3. \A x : Known(x) => Known(x)'  BY <1>4 DEF Known, Anew, guards
  <2>4. Written'
    <3>1. \A h \in Handlers : Writer(h)' => Known(handler[h].c)'
      <4> SUFFICES ASSUME NEW h \in Handlers, Writer(h)'  PROVE Known(handler[h].c)'
        OBVIOUS
      <4>1. PICK x : x = handler[h].c  OBVIOUS
      <4>2. Known(x)'  BY <1>4, <2>1, <2>3, <4>1 DEF Written, Writer
      <4> QED BY <1>4, <4>1, <4>2 DEF Known
    <3> QED BY <1>4, <2>1, <2>2, <3>1 DEF Written, Writer
  <2>5. Guarded'  BY <2>2 DEF Guarded
  <2>6. PollKnows'
    <3>1. poll' = poll /\ lastHandled' = lastHandled /\ receivedTag' = receivedTag /\ (Anew' <=> Anew)
      BY <1>4 DEF guards, Anew
    <3> QED BY <2>1, <2>2, <3>1 DEF PollKnows
  <2>7. NoEcho'  BY <1>4, <2>1 DEF NoEcho, slips
  <2> QED BY <2>4, <2>5, <2>6, <2>7
<1> QED BY <1>4, <1>5, <1>6, <1>7, HandlersKept, Together

-----------------------------------------------------------------------------
(* Events, before they are written.                                        *)

\* The events but one are left alone.
LEMMA HandlerGoes ==
    ASSUME AgentInv, NEW h \in Handlers, NEW w, HandlerFits(w), handler' = [handler EXCEPT ![h] = w]
    PROVE  /\ handler' \in [Handlers -> Handler]
           /\ \A k \in Handlers : HandlerFits(handler'[k])
           /\ handler'[h] = w /\ \A k \in Handlers \ {h} : handler'[k] = handler[k]
BY DEF AgentInv, AgentTypeOK, HandlerFits

LEMMA FreeFits == Constants => HandlerFits(Free)
BY FreeTyped DEF HandlerFits

\* A step of an event that writes nothing.
LEMMA EventStep ==
    ASSUME AgentInv, NEW h \in Handlers, NEW w, HandlerFits(w), handler' = [handler EXCEPT ![h] = w],
           w.pc \notin {"write", "back"},
           AgentTypeOK', poll' = poll, Slipped, SameGuards, SameRefresh
    PROVE  AgentInv'
<1>1. PollFits'  BY DEF AgentInv, PollFits
<1>2. SameWriters  BY HandlerGoes DEF SameWriters
<1> QED BY <1>1, <1>2, HandlerGoes, UnslippedKept, Together

\* What TypeOK says of the events: polls are locked out while one is written.
LEMMA WritersType ==
    ASSUME AgentInv, NEW h \in Handlers, NEW w, HandlerFits(w), handler' = [handler EXCEPT ![h] = w],
           w.pc \in {"write", "back"} \/ handler[h].pc \notin {"write", "back"},
           writing' => writing \/ w.pc \in {"write", "back"}
    PROVE  writing' => \E k \in Handlers : handler'[k].pc \in {"write", "back"}
<1>1. writing => \E k \in Handlers : handler[k].pc \in {"write", "back"}  BY DEF AgentInv, AgentTypeOK
<1>2. handler'[h] = w /\ \A k \in Handlers \ {h} : handler'[k] = handler[k]  BY HandlerGoes
<1> QED BY <1>1, <1>2

LEMMA RemoteCopiesFits == AgentInv /\ RemoteCopies => AgentInv'
<1> SUFFICES ASSUME AgentInv, RemoteCopies PROVE AgentInv'  OBVIOUS
<1>1. PICK c \in Received :
        /\ newest' = [c |-> c, e |-> epoch, mine |-> FALSE, newer |-> TRUE]
        /\ \/ handler' = handler
           \/ \E h \in Handlers :
                /\ handler[h] = Free
                /\ handler' = [handler EXCEPT ![h] = [Free EXCEPT !.pc = "open", !.c = c, !.e = epoch]]
  BY DEF RemoteCopies
<1>2. c \in Contents  BY StateTyped DEF Constants
<1>3. newest' \in Clip /\ remote' \in 0..MaxReceived
  BY <1>1, <1>2, StateTyped DEF Clip, AgentInv, AgentTypeOK, RemoteCopies, Constants
<1>4. SameGuards /\ SameRefresh /\ poll' = poll /\ slipped' = slipped /\ Slipped
  BY DEF SameGuards, SameRefresh, RemoteCopies, machine, guards, slips, Slipped
<1>5. ASSUME handler' \in [Handlers -> Handler],
             writing => \E k \in Handlers : handler'[k].pc \in {"write", "back"}
      PROVE  AgentTypeOK'
  BY <1>3, <1>5 DEF AgentInv, AgentTypeOK, RemoteCopies, machine, guards, watch, socket, slips
<1>6. CASE handler' = handler
  <2>1. AgentTypeOK'
    BY <1>3, <1>6 DEF AgentInv, AgentTypeOK, RemoteCopies, machine, guards, watch, socket, slips
  <2> QED BY <1>4, <1>6, <2>1, OtherStep
<1>7. ASSUME NEW h \in Handlers, handler[h] = Free,
             handler' = [handler EXCEPT ![h] = [Free EXCEPT !.pc = "open", !.c = c, !.e = epoch]]
      PROVE  AgentInv'
  <2>1. PICK w : w = [Free EXCEPT !.pc = "open", !.c = c, !.e = epoch]  OBVIOUS
  <2>2. HandlerFits(w) /\ w.pc = "open"
    BY <1>2, <2>1, StateTyped, FreeTyped DEF HandlerFits, Handler
  <2>3. handler' = [handler EXCEPT ![h] = w] /\ handler[h].pc = "idle"
    BY <1>7, <2>1, StateTyped, FreeTyped
  <2>4. AgentTypeOK'
    <3>1. writing' = writing  BY <1>4 DEF SameGuards
    <3> QED BY <1>5, <2>2, <2>3, <3>1, HandlerGoes, WritersType
  <2> QED BY <1>4, <2>2, <2>3, <2>4, EventStep
<1> QED BY <1>1, <1>6, <1>7

LEMMA ListsFits == \A h \in Handlers : AgentInv /\ Lists(h) => AgentInv'
<1> SUFFICES ASSUME NEW h \in Handlers, AgentInv, Lists(h) PROVE AgentInv'  OBVIOUS
<1>1. PICK w : /\ handler' = [handler EXCEPT ![h] = w]
               /\ \/ w = Free
                  \/ /\ newest.c # NoContent
                     /\ w = [Free EXCEPT !.pc = "open", !.c = newest.c, !.e = newest.e]
  BY DEF Lists, Ends
<1>2. newest.c \in Content /\ newest.e \in Epochs  BY DEF AgentInv, AgentTypeOK, Clip, Content
<1>3. HandlerFits(w) /\ w.pc \in {"idle", "open"}
  BY <1>1, <1>2, StateTyped, FreeTyped, FreeFits DEF HandlerFits, Handler, Content
<1>4. handler[h].pc = "list"  BY DEF Lists
<1>5. SameGuards /\ SameRefresh /\ poll' = poll /\ Slipped /\ writing' = writing
  BY DEF SameGuards, SameRefresh, Lists, machine, guards, slips, Slipped
<1>6. handler' \in [Handlers -> Handler] /\ (writing' => \E k \in Handlers : handler'[k].pc \in {"write", "back"})
  BY <1>1, <1>3, <1>4, <1>5, HandlerGoes, WritersType
<1>7. AgentTypeOK'
  BY <1>6 DEF AgentInv, AgentTypeOK, Lists, machine, vault, guards, watch, socket, slips
<1> QED BY <1>1, <1>3, <1>5, <1>7, EventStep

LEMMA GoesOnlineFits == AgentInv /\ GoesOnline => AgentInv'
<1> SUFFICES ASSUME AgentInv, GoesOnline PROVE AgentInv'  OBVIOUS
<1>1. SameGuards /\ SameRefresh /\ poll' = poll /\ slipped' = slipped /\ Slipped /\ writing' = writing
  BY DEF SameGuards, SameRefresh, GoesOnline, machine, guards, slips, Slipped
<1>2. ASSUME handler' \in [Handlers -> Handler],
             writing' => \E k \in Handlers : handler'[k].pc \in {"write", "back"}
      PROVE  AgentTypeOK'
  BY <1>2 DEF AgentInv, AgentTypeOK, GoesOnline, machine, vault, guards, watch, slips
<1>3. CASE handler' = handler
  <2>1. AgentTypeOK'  BY <1>1, <1>2, <1>3, StateTyped DEF AgentInv, AgentTypeOK
  <2> QED BY <1>1, <1>3, <2>1, OtherStep
<1>4. ASSUME NEW h \in Handlers, handler[h] = Free,
             handler' = [handler EXCEPT ![h] = [handler[h] EXCEPT !.pc = "list"]]
      PROVE  AgentInv'
  <2>1. PICK w : w = [Free EXCEPT !.pc = "list"]  OBVIOUS
  <2>2. HandlerFits(w) /\ w.pc = "list"
    BY <2>1, StateTyped, FreeTyped DEF HandlerFits, Handler
  <2>3. handler' = [handler EXCEPT ![h] = w] /\ handler[h].pc = "idle"
    BY <1>4, <2>1, StateTyped, FreeTyped
  <2>4. AgentTypeOK'  BY <1>1, <1>2, <2>2, <2>3, HandlerGoes, WritersType
  <2> QED BY <1>1, <2>2, <2>3, <2>4, EventStep
<1> QED BY <1>3, <1>4 DEF GoesOnline, Goes

LEMMA OpensFits == \A h \in Handlers : AgentInv /\ Opens(h) => AgentInv'
<1> SUFFICES ASSUME NEW h \in Handlers, AgentInv, Opens(h) PROVE AgentInv'  OBVIOUS
<1>1. PICK o : o = handler[h]  OBVIOUS
<1>2. HandlerFits(o) /\ o.pc \in {"open", "await key"} /\ o.c \in Contents /\ o \in Handler
  BY <1>1 DEF AgentInv, Opens, HandlerFits
<1>3. PICK w :
        /\ handler' = [handler EXCEPT ![h] = w]
        /\ \/ w = Free
           \/ w = [o EXCEPT !.pc = "await key"]
           \/ o.c \in Texts /\ w = [o EXCEPT !.pc = "hash", !.tag = TextTag(o.c, keys)]
           \/ o.c \notin Texts /\ w = [o EXCEPT !.pc = "fetch", !.tag = DigestTag(o.c)]
  <2>1. CASE handler' = [handler EXCEPT ![h] = Free]  BY <2>1
  <2>2. CASE handler' = [handler EXCEPT ![h].pc = "await key"]  BY <1>1, <2>2
  <2>3. CASE /\ o.c \in Texts
             /\ handler' = [handler EXCEPT ![h].pc = "hash", ![h].tag = TextTag(o.c, keys)]
    BY <1>1, <2>3, StateTyped
  <2>4. CASE /\ o.c \notin Texts
             /\ handler' = [handler EXCEPT ![h].pc = "fetch", ![h].tag = DigestTag(o.c)]
    BY <1>1, <2>4, StateTyped
  <2> QED BY <1>1, <2>1, <2>2, <2>3, <2>4 DEF Opens, Goes, Ends
<1>4. HandlerFits(w) /\ w.pc \notin {"write", "back"}
  <2>1. CASE w = Free  BY <2>1, StateTyped, FreeTyped, FreeFits
  <2>2. CASE w = [o EXCEPT !.pc = "await key"]  BY <1>2, <2>2 DEF HandlerFits, Handler
  <2>3. CASE o.c \in Texts /\ w = [o EXCEPT !.pc = "hash", !.tag = TextTag(o.c, keys)]
    <3>1. TextTag(o.c, keys) \in Tags /\ TextTag(o.c, keys)[2] = keys
      <4>1. keys \in 0..MaxEpoch
        <5>1. keys \in Epochs /\ MaxEpoch \in Nat \ {0}  BY StateTyped DEF Constants
        <5> QED BY <5>1 DEF Epochs
      <4>2. o.c \in Content  BY <1>2 DEF Content
      <4>3. TextTag(o.c, keys)[2] = keys  BY DEF TextTag
      <4> QED BY <4>1, <4>2, <4>3, StateTyped, TagsAre
    <3>2. /\ w \in Handler /\ w.pc = "hash" /\ w.c = o.c /\ w.tag = TextTag(o.c, keys)
      BY <1>2, <2>3, <3>1 DEF Handler
    <3> QED BY <1>2, <2>3, <3>1, <3>2 DEF HandlerFits
  <2>4. CASE o.c \notin Texts /\ w = [o EXCEPT !.pc = "fetch", !.tag = DigestTag(o.c)]
    <3>1. DigestTag(o.c) \in Tags  BY <1>2, StateTyped, TagsAre DEF Content
    <3>2. /\ w \in Handler /\ w.pc = "fetch" /\ w.c = o.c /\ w.tag = DigestTag(o.c)
      BY <1>2, <2>4, <3>1 DEF Handler
    <3> QED BY <1>2, <2>4, <3>2 DEF HandlerFits, Contents
  <2> QED BY <1>3, <2>1, <2>2, <2>3, <2>4
<1>5. refreshing' = refreshing \/ (refreshing.pc = "idle" /\ refreshing' = [refreshing EXCEPT !.pc = "fetch"])
  BY DEF Opens, Asks
<1>6. refreshing' \in Refresh /\ SameRefresh
  BY <1>5, StateTyped DEF Refresh, SameRefresh, Anew
<1>7. SameGuards /\ poll' = poll /\ Slipped /\ writing' = writing
  BY DEF SameGuards, Opens, machine, guards, slips, Slipped
<1>8. handler' \in [Handlers -> Handler] /\ (writing' => \E k \in Handlers : handler'[k].pc \in {"write", "back"})
  BY <1>1, <1>2, <1>3, <1>4, <1>7, HandlerGoes, WritersType
<1>9. UNCHANGED <<machine, vault, fails, guards, watch, socket, writing, recheck, imageTick,
                   poll, keys, slips>>
  BY DEF Opens
<1>10. AgentTypeOK'
  BY <1>6, <1>8, <1>9 DEF AgentInv, AgentTypeOK, machine, vault, guards, watch, socket, slips
<1> QED BY <1>3, <1>4, <1>6, <1>7, <1>10, EventStep

-----------------------------------------------------------------------------
(* Writing.                                                                *)

\* A poll that is overtaken claims nothing about what is there.
LEMMA OvertakenPoll ==
    ASSUME AgentInv, Overtakes
    PROVE  /\ poll' \in Poll /\ PollFits'
           /\ poll'.pc = poll.pc /\ poll'.own = poll.own /\ poll'.c = poll.c
           /\ poll'.pc = "idle" \/ poll'.stale
           /\ PollKnows'
           /\ poll' = poll \/ poll'.stale
<1>1. poll \in Poll  BY StateTyped
<1>2. (poll' = poll /\ poll.pc = "idle") \/ poll' = [poll EXCEPT !.stale = TRUE]
  BY DEF Overtakes
<1>3. /\ poll' \in Poll /\ poll'.pc = poll.pc /\ poll'.own = poll.own /\ poll'.c = poll.c
      /\ poll'.tag = poll.tag
      /\ poll'.pc = "idle" \/ poll'.stale
      /\ poll' = poll \/ poll'.stale
  BY <1>1, <1>2 DEF Poll
<1>4. PollFits'  BY <1>3 DEF AgentInv, PollFits
<1>5. PollKnows'  BY <1>3 DEF PollKnows
<1> QED BY <1>3, <1>4, <1>5

LEMMA GuardsFits == \A h \in Handlers : AgentInv /\ Guards(h) => AgentInv'
<1> SUFFICES ASSUME NEW h \in Handlers, AgentInv, Guards(h) PROVE AgentInv'  OBVIOUS
<1>1. PICK o : o = handler[h]  OBVIOUS
<1>2. HandlerFits(o) /\ o.pc \in {"hash", "fetch"} /\ o \in Handler
  BY <1>1 DEF AgentInv, Guards, HandlerFits
<1>3. PICK w : w = [o EXCEPT !.pc = "write"]  OBVIOUS
<1>4. HandlerFits(w) /\ w.pc = "write" /\ w.c = o.c  BY <1>2, <1>3 DEF HandlerFits, Handler
<1>5. handler' = [handler EXCEPT ![h] = w]  BY <1>1, <1>3 DEF Guards, Goes
<1>6. /\ lastHandled' = o.tag /\ receivedTag' = (IF o.c \in Files THEN o.tag ELSE receivedTag)
      /\ candidate' = NoTag /\ Overtakes /\ writing' = TRUE
      /\ slipped' = (slipped \/ (\/ writing \/ Anew
                                 \/ o.c \in Texts /\ o.tag[2] # keys))
      /\ UNCHANGED <<machine, vault, fails, watch, socket, recheck, imageTick, keys, refreshing,
                     swallowed>>
  BY <1>1 DEF Guards, SlipsIf, Anew
<1>7. slipped' \in BOOLEAN  BY <1>6, StateTyped
<1>8. AgentTypeOK'
  <2>1. handler' \in [Handlers -> Handler] /\ \E k \in Handlers : handler'[k].pc \in {"write", "back"}
    BY <1>4, <1>5, HandlerGoes
  <2>2. lastHandled' \in Tags /\ receivedTag' \in Tags /\ candidate' \in Tags
    BY <1>2, <1>6, StateTyped, HandlerTyped, TagsAre
  <2>3. poll' \in Poll /\ poll'.pc = poll.pc /\ poll'.c = poll.c  BY <1>6, OvertakenPoll
  <2>4. {unsent, writing, recheck, quiet, watching, online, connectedBefore, stopped,
         slipped, swallowed}' \subseteq BOOLEAN
    BY <1>6, <1>7 DEF AgentInv, AgentTypeOK, machine, watch, socket
  <2> QED BY <1>6, <2>1, <2>2, <2>3, <2>4 DEF AgentInv, AgentTypeOK, machine, vault
<1>9. Unslipped'
  <2> SUFFICES ASSUME ~slipped'  PROVE (Written /\ Guarded /\ PollKnows /\ NoEcho)'
    BY DEF Unslipped
  <2>1. /\ ~slipped /\ ~writing /\ ~Anew /\ (o.c \in Texts => o.tag[2] = keys)
        /\ Written /\ NoEcho
    BY <1>6, <1>7, StateTyped DEF AgentInv, Unslipped
  <2>2. \A k \in Handlers \ {h} : ~Writer(k)'
    BY <1>4, <1>5, <2>1, HandlerGoes DEF Written, Writer
  <2>3. handler'[h] = w  BY <1>4, <1>5, HandlerGoes
  <2>4. Known(handler[h].c)'
    <3>1. o.tag = IF o.c \in Texts THEN TextTag(o.c, keys) ELSE DigestTag(o.c)
      BY <1>2, <2>1 DEF HandlerFits
    <3>2. keys' = keys /\ ~Anew'  BY <1>6, <2>1 DEF Anew
    <3>3. o.c \in Images \/ o.c \in Files => o.c \notin Texts  BY StateTyped DEF Constants
    <3> QED BY <1>4, <1>6, <2>3, <3>1, <3>2, <3>3 DEF Known
  <2>5. Written'
    BY <1>4, <1>6, <2>1, <2>2, <2>3, <2>4, OvertakenPoll DEF Written, Writer, Anew
  <2>6. Guarded'  BY <1>6 DEF Guarded
  <2>7. PollKnows' /\ NoEcho'  BY <1>6, <2>1, OvertakenPoll DEF NoEcho
  <2> QED BY <2>5, <2>6, <2>7
<1> QED BY <1>4, <1>5, <1>6, <1>8, <1>9, HandlerGoes, OvertakenPoll, Together

LEMMA WritesFits == \A h \in Handlers : AgentInv /\ Writes(h) => AgentInv'
<1> SUFFICES ASSUME NEW h \in Handlers, AgentInv, Writes(h) PROVE AgentInv'  OBVIOUS
<1>1. PICK o : o = handler[h]  OBVIOUS
<1>2. HandlerFits(o) /\ o.pc = "write" /\ o.c \in Contents /\ o \in Handler
  BY <1>1 DEF AgentInv, Writes, HandlerFits
<1>3. PICK w :
        /\ handler' = [handler EXCEPT ![h] = w]
        /\ \/ o.c \in Images /\ w = [o EXCEPT !.pc = "back"] /\ writing' = writing
           \/ o.c \notin Images /\ w = Free /\ writing' = FALSE
  BY <1>1 DEF Writes, Goes, Ends
<1>4. HandlerFits(w) /\ w.pc = (IF o.c \in Images THEN "back" ELSE "idle")
  <2>1. CASE o.c \in Images
    BY <1>2, <1>3, <2>1 DEF HandlerFits, Handler
  <2>2. CASE o.c \notin Images
    BY <1>3, <2>2, StateTyped, FreeTyped, FreeFits
  <2> QED BY <2>1, <2>2
<1>5. PICK c : c = IF o.c \in Images THEN Back[o.c] ELSE o.c  OBVIOUS
<1>6. /\ clipboard' = [c |-> c, own |-> FALSE] /\ unsent' = FALSE
      /\ quiet' = (quiet \/ watching)
      /\ UNCHANGED <<copied, vault, fails, guards, watching, socket, recheck, imageTick,
                     poll, keys, refreshing, slips>>
  BY <1>1, <1>5 DEF Writes, Announces
<1>7. c \in Contents /\ (o.c \in Images => c \in Images)
  BY <1>2, <1>5, StateTyped DEF Constants, Contents
<1>8. /\ handler' \in [Handlers -> Handler] /\ handler'[h] = w
      /\ \A k \in Handlers \ {h} : handler'[k] = handler[k]
      /\ \A k \in Handlers : HandlerFits(handler'[k])
  BY <1>3, <1>4, HandlerGoes
<1>9. AgentTypeOK'
  <2>1. clipboard' \in [c : Contents \cup {NoContent}, own : BOOLEAN]  BY <1>6, <1>7
  <2>2. writing' => \E k \in Handlers : handler'[k].pc \in {"write", "back"}
    BY <1>3, <1>4, <1>8
  <2>3. {unsent, writing, recheck, quiet, watching, online, connectedBefore, stopped,
         slipped, swallowed}' \subseteq BOOLEAN
    <3>1. writing' \in BOOLEAN /\ unsent' \in BOOLEAN  BY <1>3, <1>6, StateTyped
    <3>2. quiet' \in BOOLEAN  BY <1>6 DEF AgentInv, AgentTypeOK
    <3> QED BY <1>6, <3>1, <3>2 DEF AgentInv, AgentTypeOK, socket, slips
  <2> QED BY <1>6, <1>8, <2>1, <2>2, <2>3 DEF AgentInv, AgentTypeOK, vault, guards
<1>10. PollFits'  BY <1>6 DEF AgentInv, PollFits
<1>11. Unslipped'
  <2> SUFFICES ASSUME ~slipped'  PROVE (Written /\ Guarded /\ PollKnows /\ NoEcho)'
    BY DEF Unslipped
  <2>1. Written /\ NoEcho  BY <1>6 DEF AgentInv, Unslipped, slips
  <2>2. Writer(h) /\ writing /\ (poll.pc = "idle" \/ poll.stale) /\ refreshing.pc # "prime"
        /\ Known(o.c)
    BY <1>1, <1>2, <2>1 DEF Written, Writer
  <2>3. \A k \in Handlers \ {h} : ~Writer(k)'  BY <1>8, <2>1, <2>2 DEF Written, Writer
  <2>4. Known(o.c)'  BY <1>6, <2>2 DEF Known, guards, Anew
  <2>5. (PollKnows /\ NoEcho)'
    BY <1>6, <2>1, <2>2 DEF PollKnows, NoEcho, slips
  <2>6. CASE o.c \in Images
    <3>1. w.c = o.c /\ w.pc = "back"  BY <1>2, <1>3, <1>4, <2>6 DEF Handler
    <3>2. Known(handler[h].c)'  BY <1>8, <2>4, <3>1 DEF Known
    <3>3. writing'  BY <1>3, <2>2, <2>6
    <3>4. clipboard'.c \in Images  BY <1>6, <1>7, <2>6
    <3>5. Written'
      <4>1. (\A k \in Handlers : Writer(k) => writing)'  BY <3>3
      <4>2. (\A k, l \in Handlers : Writer(k) /\ Writer(l) => k = l)'  BY <2>3
      <4>3. (writing => refreshing.pc # "prime" /\ (poll.pc # "idle" => poll.stale))'
        BY <1>6, <2>2
      <4>4. (\A k \in Handlers : Writer(k) => Known(handler[k].c))'  BY <2>3, <3>2
      <4>5. (\A k \in Handlers : handler[k].pc = "back" => clipboard.own \/ clipboard.c \in Images)'
        BY <3>4
      <4> QED BY <4>1, <4>2, <4>3, <4>4, <4>5 DEF Written
    <3> QED BY <2>5, <3>3, <3>5 DEF Guarded
  <2>7. CASE o.c \notin Images
    <3>1. \A k \in Handlers : ~Writer(k)'  BY <1>4, <1>8, <2>3, <2>7 DEF Writer
    <3>2. ~writing'  BY <1>3, <2>7
    <3>3. Written'  BY <3>1, <3>2 DEF Written, Writer
    <3>4. clipboard'.c = o.c /\ o.c \in Contents  BY <1>2, <1>5, <1>6, <2>7
    <3>5. Known(clipboard.c)'  BY <2>4, <3>4 DEF Known
    <3> QED BY <2>5, <3>3, <3>4, <3>5 DEF Guarded
  <2> QED BY <2>6, <2>7
<1> QED BY <1>8, <1>9, <1>10, <1>11, Together

LEMMA ReadsBackFits == \A h \in Handlers : AgentInv /\ ReadsBack(h) => AgentInv'
<1> SUFFICES ASSUME NEW h \in Handlers, AgentInv, ReadsBack(h) PROVE AgentInv'  OBVIOUS
<1>1. PICK o : o = handler[h]  OBVIOUS
<1>2. HandlerFits(o) /\ o.pc = "back" /\ o.c \in Images
  BY <1>1 DEF AgentInv, ReadsBack, HandlerFits
<1>3. handler' = [handler EXCEPT ![h] = Free] /\ writing' = FALSE  BY DEF ReadsBack, Ends
<1>4. /\ lastHandled' = (IF clipboard.c \in Images THEN DigestTag(clipboard.c) ELSE lastHandled)
      /\ swallowed' = (swallowed \/ (clipboard.c \in Images /\ clipboard.own))
      /\ UNCHANGED <<slipped, machine, vault, fails, candidate, receivedTag, watch, socket,
                     recheck, imageTick, poll, keys, refreshing>>
  BY DEF ReadsBack
<1>5. /\ handler' \in [Handlers -> Handler] /\ handler'[h].pc = "idle"
      /\ \A k \in Handlers \ {h} : handler'[k] = handler[k]
      /\ \A k \in Handlers : HandlerFits(handler'[k])
  BY <1>3, StateTyped, FreeTyped, FreeFits, HandlerGoes
<1>6. AgentTypeOK'
  <2>1. lastHandled' \in Tags  BY <1>4, StateTyped, TagsAre
  <2>2. {unsent, writing, recheck, quiet, watching, online, connectedBefore, stopped,
         slipped, swallowed}' \subseteq BOOLEAN
    <3>1. swallowed' \in BOOLEAN  BY <1>4 DEF AgentInv, AgentTypeOK
    <3> QED BY <1>3, <1>4, <3>1 DEF AgentInv, AgentTypeOK, machine, watch, socket
  <2> QED BY <1>3, <1>4, <1>5, <2>1, <2>2 DEF AgentInv, AgentTypeOK, machine, vault
<1>7. PollFits'  BY <1>4 DEF AgentInv, PollFits
<1>8. Unslipped'
  <2> SUFFICES ASSUME ~slipped'  PROVE (Written /\ Guarded /\ PollKnows /\ NoEcho)'
    BY DEF Unslipped
  <2>1. Written /\ NoEcho  BY <1>4 DEF AgentInv, Unslipped
  <2>2. /\ Writer(h) /\ writing /\ (poll.pc = "idle" \/ poll.stale) /\ Known(o.c)
        /\ clipboard.own \/ clipboard.c \in Images
    BY <1>1, <1>2, <2>1 DEF Written, Writer
  <2>3. \A k \in Handlers : ~Writer(k)'  BY <1>5, <2>1, <2>2 DEF Written, Writer
  <2>4. Written'  BY <1>3, <2>3 DEF Written, Writer
  <2>5. (PollKnows /\ NoEcho)'  BY <1>4, <2>1, <2>2 DEF PollKnows, NoEcho
  <2>6. Guarded'
    <3> SUFFICES ASSUME ~clipboard'.own
                 PROVE  clipboard'.c \in Contents /\ Known(clipboard.c)'
      BY DEF Guarded
    <3>1. clipboard' = clipboard /\ clipboard.c \in Images  BY <1>4, <2>2 DEF machine
    <3>2. lastHandled' = DigestTag(clipboard.c)  BY <1>4, <3>1
    <3>3. ~Anew'  BY <1>2, <1>4, <2>2 DEF Known, Anew
    <3>4. clipboard.c \notin Texts /\ clipboard.c \notin Files /\ clipboard.c \in Contents
      BY <3>1, StateTyped DEF Constants, Contents
    <3> QED BY <3>1, <3>2, <3>3, <3>4 DEF Known
  <2> QED BY <2>4, <2>5, <2>6
<1> QED BY <1>5, <1>6, <1>7, <1>8, Together

LEMMA ApplyFailsFits == \A h \in Handlers : AgentInv /\ ApplyFails(h) => AgentInv'
<1> SUFFICES ASSUME NEW h \in Handlers, AgentInv, ApplyFails(h) PROVE AgentInv'  OBVIOUS
<1>1. /\ handler' = [handler EXCEPT ![h] = Free]
      /\ writing' = (writing /\ handler[h].pc \notin {"write", "back"})
      /\ slipped' = (slipped \/ handler[h].pc \in {"write", "back"})
      /\ UNCHANGED <<swallowed, machine, vault, guards, watch, socket, recheck, imageTick, poll,
                     keys, refreshing>>
  BY DEF ApplyFails, Ends, Unlocks, SlipsIf
<1>2. fails' \in 0..MaxFails  BY DEF AgentInv, AgentTypeOK, ApplyFails, Constants
<1>3. writing' \in BOOLEAN /\ slipped' \in BOOLEAN  BY <1>1, StateTyped
<1>4. HandlerFits(Free) /\ Free.pc = "idle"  BY StateTyped, FreeTyped, FreeFits
<1>5. /\ handler' \in [Handlers -> Handler] /\ handler'[h] = Free
      /\ \A k \in Handlers \ {h} : handler'[k] = handler[k]
      /\ \A k \in Handlers : HandlerFits(handler'[k])
  BY <1>1, <1>4, HandlerGoes
<1>6. writing' => \E k \in Handlers : handler'[k].pc \in {"write", "back"}
  <2>1. CASE handler[h].pc \in {"write", "back"}  BY <1>1, <2>1
  <2>2. CASE handler[h].pc \notin {"write", "back"}
    BY <1>1, <1>4, <2>2, WritersType
  <2> QED BY <2>1, <2>2
<1>7. AgentTypeOK'
  <2>1. {unsent, writing, recheck, quiet, watching, online, connectedBefore, stopped,
         slipped, swallowed}' \subseteq BOOLEAN
    BY <1>1, <1>3 DEF AgentInv, AgentTypeOK, machine, watch, socket
  <2> QED BY <1>1, <1>2, <1>5, <1>6, <2>1 DEF AgentInv, AgentTypeOK, machine, vault, guards
<1>8. CASE handler[h].pc \in {"write", "back"}
  <2>1. Unslipped'  BY <1>1, <1>8 DEF Unslipped
  <2>2. PollFits'  BY <1>1 DEF AgentInv, PollFits
  <2> QED BY <1>5, <1>7, <2>1, <2>2, Together
<1>9. CASE handler[h].pc \notin {"write", "back"}
  <2>1. writing' = writing /\ Slipped /\ poll' = poll  BY <1>1, <1>9, StateTyped DEF Slipped
  <2>2. SameGuards /\ SameRefresh
    BY <1>1, <2>1 DEF SameGuards, SameRefresh, machine, guards
  <2> QED BY <1>1, <1>4, <1>7, <2>1, <2>2, EventStep
<1> QED BY <1>8, <1>9

-----------------------------------------------------------------------------
(* Polls.                                                                  *)

\* While a poll goes on that was not overtaken, nothing is written.
LEMMA NotWriting ==
    ASSUME AgentInv, ~slipped, ~poll.stale, poll.pc # "idle"
    PROVE  ~writing /\ \A h \in Handlers : ~Writer(h)
BY DEF AgentInv, Unslipped, Written

\* A step of a poll that leaves the guards alone.
LEMMA PollMoves ==
    ASSUME AgentInv, AgentTypeOK', PollFits', handler' = handler, Slipped, SameGuards, SameRefresh,
           writing => poll'.pc = "idle" \/ poll'.stale,
           ~slipped' => PollKnows' /\ NoEcho'
    PROVE  AgentInv'
<1>1. Unslipped'
  <2> SUFFICES ASSUME ~slipped'  PROVE (Written /\ Guarded /\ PollKnows /\ NoEcho)'
    BY DEF Unslipped
  <2> QED BY HandlersKept, WrittenKept
<1> QED BY <1>1, HandlersKept, Together

\* One that moves the guard: what the clipboard holds needs none then.
LEMMA GuardMoves ==
    ASSUME AgentInv, AgentTypeOK', PollFits', handler' = handler, Slipped, SameRefresh,
           UNCHANGED <<clipboard, receivedTag, writing, keys>>,
           poll.pc # "idle",
           ~slipped' => /\ ~poll.stale /\ (clipboard.own \/ clipboard.c \in Files)
                        /\ PollKnows' /\ NoEcho'
    PROVE  AgentInv'
<1>1. Unslipped'
  <2> SUFFICES ASSUME ~slipped'  PROVE (Written /\ Guarded /\ PollKnows /\ NoEcho)'
    BY DEF Unslipped
  <2>1. ~slipped /\ ~poll.stale /\ Written /\ Guarded  BY DEF AgentInv, Unslipped, Slipped
  <2>2. ~writing /\ \A h \in Handlers : ~Writer(h)  BY <2>1, NotWriting
  <2>3. Written'  BY <2>2 DEF Written, Writer
  <2>4. Guarded'
    <3> SUFFICES ASSUME ~clipboard'.own
                 PROVE  clipboard'.c \in Contents /\ Known(clipboard.c)'
      BY DEF Guarded
    <3>1. clipboard.c \in Files /\ Known(clipboard.c)  BY <2>1, <2>2 DEF Guarded
    <3>2. clipboard.c \notin Texts /\ clipboard.c \notin Images /\ clipboard.c \in Contents
      BY <3>1, StateTyped DEF Constants, Contents
    <3> QED BY <3>1, <3>2 DEF Known
  <2> QED BY <2>3, <2>4
<1> QED BY <1>1, HandlersKept, Together

LEMMA ReadFits == AgentInv /\ Read => AgentInv'
<1> SUFFICES ASSUME AgentInv, Read PROVE AgentInv'  OBVIOUS
<1>1. /\ poll.pc = "read" /\ slipped' = (slipped \/ Anew)
      /\ UNCHANGED <<swallowed, machine, vault, fails, guards, watch, socket, writing, recheck,
                     handler, keys, refreshing>>
  BY DEF Read, SlipsIf, Anew
<1>2. poll \in Poll  BY StateTyped
<1>3. /\ handler' = handler /\ Slipped /\ SameGuards /\ SameRefresh /\ slipped' \in BOOLEAN
      /\ Anew' = Anew
  BY <1>1, StateTyped DEF Slipped, SameGuards, SameRefresh, machine, guards, Anew
<1>4. writing => (~slipped' => poll.stale)  BY <1>1, <1>3, NotWriting, StateTyped DEF Slipped
<1>5. ASSUME poll' \in Poll, imageTick' \in 0..(ImagePollEvery - 1), poll'.pc # "sent"
      PROVE  AgentTypeOK'
  <2>1. {unsent, writing, recheck, quiet, watching, online, connectedBefore, stopped,
         slipped, swallowed}' \subseteq BOOLEAN
    BY <1>1, <1>3 DEF AgentInv, AgentTypeOK, machine, watch, socket
  <2> QED BY <1>1, <1>5, <2>1 DEF AgentInv, AgentTypeOK, machine, vault, guards
<1>6. ASSUME Unslipped', AgentTypeOK', PollFits' PROVE AgentInv'
  BY <1>3, <1>6, HandlersKept, Together
<1>7. CASE ReadsAsText(clipboard.c)
  <2>1. poll' = [poll EXCEPT !.pc = "hash", !.c = clipboard.c, !.own = clipboard.own,
                             !.tag = TextTag(clipboard.c, keys)]
        /\ imageTick' = imageTick
    BY <1>7 DEF Read
  <2>2. clipboard.c \in Texts \cup Files  BY <1>7 DEF ReadsAsText
  <2>3. clipboard.c \in Contents /\ clipboard.c \notin Images
    BY <2>2, StateTyped DEF Contents, Constants
  <2>4. TextTag(clipboard.c, keys) \in Tags
    <3>1. keys \in Epochs /\ MaxEpoch \in Nat \ {0}  BY StateTyped DEF Constants
    <3>2. keys \in 0..MaxEpoch  BY <3>1 DEF Epochs
    <3> QED BY <3>2, StateTyped, TagsAre
  <2>5. /\ poll' \in Poll /\ poll'.pc = "hash" /\ poll'.c = clipboard.c
        /\ poll'.own = clipboard.own /\ poll'.tag = TextTag(clipboard.c, keys)
        /\ poll'.stale = poll.stale
    BY <1>2, <2>1, <2>4, StateTyped DEF Poll, Content
  <2>6. AgentTypeOK'  BY <1>5, <2>1, <2>5 DEF AgentInv, AgentTypeOK
  <2>7. PollFits'  BY <1>7, <2>3, <2>5 DEF PollFits
  <2>8. Unslipped'
    <3> SUFFICES ASSUME ~slipped'  PROVE (Written /\ Guarded /\ PollKnows /\ NoEcho)'
      BY DEF Unslipped
    <3>1. ~slipped /\ ~Anew /\ Guarded  BY <1>1, <1>3, StateTyped DEF AgentInv, Unslipped
    <3>2. writing => poll'.pc = "idle" \/ poll'.stale  BY <1>4, <2>5
    <3>3. Written' /\ Guarded'  BY <1>3, <3>2, HandlersKept, WrittenKept
    <3>4. PollKnows'
      <4> SUFFICES ASSUME ~poll.stale  PROVE PollKnows'  BY <2>5 DEF PollKnows
      <4>1. ~writing  BY <1>1, <3>1, NotWriting
      <4>2. ~clipboard.own => Known(clipboard.c)  BY <3>1, <4>1 DEF Guarded
      <4>3. ~clipboard.own =>
              /\ clipboard.c \in Texts => lastHandled = poll'.tag
              /\ clipboard.c \in Files => receivedTag = DigestTag(clipboard.c)
        BY <2>5, <3>1, <4>2 DEF Known, Anew
      <4>4. /\ clipboard' = clipboard /\ lastHandled' = lastHandled /\ receivedTag' = receivedTag
            /\ ~Anew'
        BY <1>3, <3>1 DEF SameGuards
      <4> QED BY <2>3, <2>5, <4>3, <4>4 DEF PollKnows
    <3>5. NoEcho'  BY <2>5 DEF NoEcho
    <3> QED BY <3>3, <3>4, <3>5
  <2> QED BY <1>6, <2>6, <2>7, <2>8
<1>8. CASE ~ReadsAsText(clipboard.c)
  <2>1. /\ imageTick' = (IF poll.after THEN imageTick ELSE (imageTick + 1) % ImagePollEvery)
        /\ poll' = Quiet \/ poll' = [poll EXCEPT !.pc = "look"]
    BY <1>8 DEF Read
  <2>2. imageTick' \in 0..(ImagePollEvery - 1)
    <3>1. imageTick \in 0..(ImagePollEvery - 1) /\ ImagePollEvery \in Nat \ {0}
      BY DEF AgentInv, AgentTypeOK, Constants
    <3> QED BY <2>1, <3>1
  <2>3. poll' \in Poll /\ (poll'.pc = "idle" \/ (poll'.pc = "look" /\ poll'.stale = poll.stale))
    BY <1>2, <2>1, StateTyped, FreeTyped DEF Poll
  <2>4. AgentTypeOK'  BY <1>5, <2>2, <2>3
  <2>5. PollFits'  BY <2>3 DEF PollFits
  <2>6. Unslipped'
    <3> SUFFICES ASSUME ~slipped'  PROVE (Written /\ Guarded /\ PollKnows /\ NoEcho)'
      BY DEF Unslipped
    <3>1. ~Anew'  BY <1>1, <1>3, StateTyped
    <3>2. writing => poll'.pc = "idle" \/ poll'.stale  BY <1>4, <2>3
    <3>3. Written' /\ Guarded'  BY <1>3, <3>2, HandlersKept, WrittenKept
    <3>4. PollKnows' /\ NoEcho'  BY <2>3, <3>1 DEF PollKnows, NoEcho
    <3> QED BY <3>3, <3>4
  <2> QED BY <1>6, <2>4, <2>5, <2>6
<1> QED BY <1>7, <1>8

\* What is settled, for a poll.
LEMMA SettlesTyped ==
    ASSUME AgentInv, NEW tag \in Tags, Settles(tag)
    PROVE  candidate' \in Tags /\ newest' \in Clip
<1>1. candidate' \in Tags  BY StateTyped, TagsAre DEF Settles
<1>2. newest \in Clip  BY DEF AgentInv, AgentTypeOK
<1>3. PICK b \in BOOLEAN : newest' = [newest EXCEPT !.newer = b]
  <2>1. PICK b : b = (newest.newer /\ (tag = lastHandled \/ (~poll.after /\ tag = candidate)))
    OBVIOUS
  <2>2. b \in BOOLEAN  BY <2>1
  <2> QED BY <2>1, <2>2 DEF Settles
<1> QED BY <1>1, <1>2, <1>3 DEF Clip

LEMMA HashedFits == AgentInv /\ Hashed => AgentInv'
<1> SUFFICES ASSUME AgentInv, Hashed PROVE AgentInv'  OBVIOUS
<1>1. poll.pc = "hash" /\ poll \in Poll  BY StateTyped DEF Hashed
<1>2. /\ UNCHANGED <<machine, epoch, remote, fails, lastHandled, receivedTag, watch, socket,
                     writing, recheck, imageTick, handler, keys, refreshing, slips>>
      /\ \/ poll' = Quiet
         \/ ~poll.stale /\ poll.tag # lastHandled /\ poll' = [poll EXCEPT !.pc = "files"]
  BY DEF Hashed, Overtaken, Settled
<1>3. candidate' \in Tags /\ newest' \in Clip
  <2>1. poll.tag \in Tags  BY <1>1, PollTyped
  <2>2. CASE poll.stale
    BY <2>2 DEF Hashed, Overtaken, AgentInv, AgentTypeOK
  <2>3. CASE ~poll.stale
    BY <2>1, <2>3, SettlesTyped DEF Hashed, Overtaken
  <2> QED BY <2>2, <2>3
<1>4. /\ poll' \in Poll
      /\ poll'.pc = "idle" \/ (/\ poll'.pc = "files" /\ ~poll.stale /\ poll.tag # lastHandled
                               /\ poll'.stale = poll.stale /\ poll'.c = poll.c
                               /\ poll'.own = poll.own)
  BY <1>1, <1>2, StateTyped, FreeTyped DEF Poll
<1>5. AgentTypeOK'
  BY <1>2, <1>3, <1>4 DEF AgentInv, AgentTypeOK, machine, watch, socket, slips
<1>6. PollFits'  BY <1>1, <1>4 DEF AgentInv, PollFits
<1>7. handler' = handler /\ slipped' = slipped /\ SameGuards /\ SameRefresh /\ (Anew' <=> Anew)
  BY <1>2 DEF SameGuards, SameRefresh, machine, slips, Anew
<1>8. CASE poll'.pc = "idle"
  <2>1. PollKnows' /\ NoEcho'  BY <1>8 DEF PollKnows, NoEcho
  <2> QED BY <1>5, <1>6, <1>7, <1>8, <2>1, PollMoves DEF Slipped
<1>9. CASE poll'.pc # "idle"
  <2>1. ASSUME ~slipped'  PROVE PollKnows' /\ NoEcho' /\ ~writing
    <3>1. PollKnows /\ ~writing
      BY <1>1, <1>4, <1>7, <1>9, <2>1, NotWriting DEF AgentInv, Unslipped
    <3>2. /\ ~Anew /\ (clipboard.own \/ (~poll.own /\ clipboard.c = poll.c))
          /\ ~poll.own => /\ poll.c \notin Texts
                          /\ poll.c \in Files => receivedTag = DigestTag(poll.c)
      BY <1>1, <1>4, <1>9, <3>1 DEF PollKnows
    <3>3. poll.c \notin Images  
      BY <1>1, StateTyped DEF AgentInv, PollFits, ReadsAsText, Constants
    <3>4. clipboard' = clipboard /\ receivedTag' = receivedTag  BY <1>7 DEF SameGuards
    <3> QED BY <1>4, <1>7, <1>9, <3>1, <3>2, <3>3, <3>4 DEF PollKnows, NoEcho
  <2>2. CASE ~slipped'  BY <1>5, <1>6, <1>7, <2>1, <2>2, PollMoves DEF Slipped
  <2>3. CASE slipped'
    <3>1. Unslipped'  BY <2>3 DEF Unslipped
    <3> QED BY <1>5, <1>6, <1>7, <3>1, HandlersKept, Together
  <2> QED BY <2>2, <2>3
<1> QED BY <1>8, <1>9

LEMMA LookFits == AgentInv /\ Look => AgentInv'
<1> SUFFICES ASSUME AgentInv, Look PROVE AgentInv'  OBVIOUS
<1>1. poll.pc = "look" /\ poll \in Poll  BY StateTyped DEF Look
<1>2. UNCHANGED <<machine, vault, fails, lastHandled, receivedTag, watch, socket, writing,
                   recheck, imageTick, handler, keys, refreshing, slips>>
  BY DEF Look
<1>3. candidate' \in Tags
  <2>1. candidate' = NoTag \/ candidate' = candidate  BY DEF Look
  <2> QED BY <2>1, StateTyped, TagsAre
<1>4. handler' = handler /\ slipped' = slipped /\ SameGuards /\ SameRefresh /\ (Anew' <=> Anew)
  BY <1>2 DEF SameGuards, SameRefresh, machine, slips, Anew
<1>5. ASSUME poll' \in Poll, poll'.pc # "sent"  PROVE AgentTypeOK'
  BY <1>2, <1>3, <1>5 DEF AgentInv, AgentTypeOK, machine, vault, watch, socket, slips
<1>6. CASE clipboard.c = NoContent \/ ReadsAsText(clipboard.c)
  <2>1. poll' = Quiet  BY <1>6 DEF Look
  <2>2. poll' \in Poll /\ poll'.pc = "idle"  BY <2>1, StateTyped, FreeTyped
  <2>3. PollKnows' /\ NoEcho' /\ PollFits'  BY <2>2 DEF PollKnows, NoEcho, PollFits
  <2> QED BY <1>4, <1>5, <2>2, <2>3, PollMoves DEF Slipped
<1>7. CASE ~(clipboard.c = NoContent \/ ReadsAsText(clipboard.c))
  <2>1. poll' = [poll EXCEPT !.pc = "check", !.c = clipboard.c, !.own = clipboard.own,
                             !.tag = DigestTag(clipboard.c)]
    BY <1>7 DEF Look
  <2>2. DigestTag(clipboard.c) \in Tags  BY StateTyped, TagsAre
  <2>3. /\ poll' \in Poll /\ poll'.pc = "check" /\ poll'.c = clipboard.c
        /\ poll'.own = clipboard.own /\ poll'.tag = DigestTag(clipboard.c)
        /\ poll'.stale = poll.stale
    BY <1>1, <2>1, <2>2, StateTyped DEF Poll, Content
  <2>4. clipboard.c \in Images \cup Files /\ clipboard.c \in Contents /\ clipboard.c \notin Texts
    BY <1>7, StateTyped DEF Content, Contents, ReadsAsText
  <2>5. PollFits'  BY <2>3, <2>4 DEF PollFits
  <2>6. ASSUME ~slipped'
        PROVE  PollKnows' /\ NoEcho' /\ (writing => poll'.stale)
    <3>1. ~slipped /\ PollKnows /\ Guarded  BY <1>4, <2>6 DEF AgentInv, Unslipped
    <3>2. NoEcho'  BY <2>3 DEF NoEcho
    <3>3. writing => poll'.stale  BY <1>1, <2>3, <3>1, NotWriting
    <3>4. ASSUME ~poll.stale  PROVE PollKnows'
      <4>1. ~Anew /\ ~writing  BY <1>1, <3>1, <3>4, NotWriting DEF PollKnows
      <4>2. ~clipboard.own => Known(clipboard.c)  BY <3>1, <4>1 DEF Guarded
      <4>3. clipboard' = clipboard /\ lastHandled' = lastHandled /\ receivedTag' = receivedTag
        BY <1>4 DEF SameGuards
      <4>4. ~clipboard.own =>
              /\ clipboard.c \in Images => lastHandled = DigestTag(clipboard.c)
              /\ clipboard.c \in Files => receivedTag = DigestTag(clipboard.c)
        BY <4>2 DEF Known
      <4>5. poll'.own <=> clipboard.own  BY <2>3
      <4>6. poll'.pc = "check" /\ clipboard'.c = poll'.c /\ ~Anew'  BY <1>4, <2>3, <4>1, <4>3
      <4>7. ~poll'.own => /\ poll'.c \in Images => lastHandled' = poll'.tag
                          /\ poll'.c \in Files => receivedTag' = DigestTag(poll'.c)
                          /\ poll'.c \notin Texts
        BY <2>3, <2>4, <4>3, <4>4, <4>5
      <4>8. clipboard'.own \/ ~poll'.own  BY <4>3, <4>5
      <4> QED BY <4>6, <4>7, <4>8 DEF PollKnows
    <3>5. ASSUME poll.stale  PROVE PollKnows'
      <4>1. poll'.stale  BY <2>3, <3>5
      <4> QED BY <4>1 DEF PollKnows
    <3> QED BY <3>2, <3>3, <3>4, <3>5
  <2>7. AgentTypeOK'  BY <1>5, <2>3
  <2>8. CASE ~slipped'  BY <1>4, <2>5, <2>6, <2>7, <2>8, PollMoves DEF Slipped
  <2>9. CASE slipped'
    <3>1. Unslipped'  BY <2>9 DEF Unslipped
    <3> QED BY <1>4, <2>5, <2>7, <3>1, HandlersKept, Together
  <2> QED BY <2>8, <2>9
<1> QED BY <1>6, <1>7

LEMMA ChecksFits == AgentInv /\ Checks => AgentInv'
<1> SUFFICES ASSUME AgentInv, Checks PROVE AgentInv'  OBVIOUS
<1>1. poll.pc = "check" /\ poll \in Poll  BY StateTyped DEF Checks
<1>2. /\ UNCHANGED <<machine, vault, fails, guards, watch, socket, writing, recheck, imageTick,
                     handler, keys, refreshing, slips>>
      /\ poll' = Quiet \/ (~poll.stale /\ poll' = [poll EXCEPT !.pc = "digest"])
  BY DEF Checks, Overtaken
<1>3. /\ poll' \in Poll
      /\ poll'.pc = "idle" \/ (/\ poll'.pc = "digest" /\ ~poll.stale /\ poll'.tag = poll.tag
                               /\ poll'.stale = poll.stale /\ poll'.c = poll.c
                               /\ poll'.own = poll.own)
  BY <1>1, <1>2, StateTyped, FreeTyped DEF Poll
<1>4. AgentTypeOK'
  BY <1>2, <1>3 DEF AgentInv, AgentTypeOK, machine, vault, guards, watch, socket, slips
<1>5. PollFits'  BY <1>1, <1>3 DEF AgentInv, PollFits
<1>6. handler' = handler /\ slipped' = slipped /\ SameGuards /\ SameRefresh /\ (Anew' <=> Anew)
  BY <1>2 DEF SameGuards, SameRefresh, machine, guards, slips, Anew
<1>7. CASE poll'.pc = "idle"
  <2>1. PollKnows' /\ NoEcho'  BY <1>7 DEF PollKnows, NoEcho
  <2> QED BY <1>4, <1>5, <1>6, <1>7, <2>1, PollMoves DEF Slipped
<1>8. CASE poll'.pc # "idle"
  <2>1. ASSUME ~slipped'  PROVE PollKnows' /\ NoEcho' /\ ~writing
    <3>1. PollKnows /\ ~writing
      BY <1>1, <1>3, <1>6, <1>8, <2>1, NotWriting DEF AgentInv, Unslipped
    <3>2. clipboard' = clipboard /\ receivedTag' = receivedTag /\ lastHandled' = lastHandled
      BY <1>6 DEF SameGuards
    <3>3. NoEcho'  BY <1>3, <1>8 DEF NoEcho
    <3>4. /\ ~Anew /\ (clipboard.own \/ (~poll.own /\ clipboard.c = poll.c))
          /\ ~poll.own => /\ poll.c \notin Texts
                          /\ poll.c \in Images => lastHandled = poll.tag
                          /\ poll.c \in Files => receivedTag = DigestTag(poll.c)
      BY <1>1, <1>3, <1>8, <3>1 DEF PollKnows
    <3>5. PollKnows'  BY <1>3, <1>6, <1>8, <3>2, <3>4 DEF PollKnows
    <3> QED BY <3>1, <3>3, <3>5
  <2>2. CASE ~slipped'  BY <1>4, <1>5, <1>6, <2>1, <2>2, PollMoves DEF Slipped
  <2>3. CASE slipped'
    <3>1. Unslipped'  BY <2>3 DEF Unslipped
    <3> QED BY <1>4, <1>5, <1>6, <3>1, HandlersKept, Together
  <2> QED BY <2>2, <2>3
<1> QED BY <1>7, <1>8

\* What is read beside a text is the user's, or the file that was received.
LEMMA ReadsBesideFits == AgentInv /\ ReadsBeside => AgentInv'
<1> SUFFICES ASSUME AgentInv, ReadsBeside PROVE AgentInv'  OBVIOUS
<1>1. poll.pc = "files" /\ poll \in Poll /\ ReadsAsText(poll.c) /\ poll.c \in Contents
  BY StateTyped DEF ReadsBeside, AgentInv, PollFits
<1>2. /\ UNCHANGED <<machine, vault, fails, guards, watch, socket, writing, recheck, imageTick,
                     handler, keys, refreshing, slips>>
      /\ \/ /\ clipboard.c \in Files \/ (clipboard.c \in Images /\ poll.c \in Texts)
            /\ poll' = [poll EXCEPT !.pc = "found", !.c = clipboard.c, !.own = clipboard.own]
         \/ poll' = [poll EXCEPT !.pc = "found"]
  BY DEF ReadsBeside
<1>3. /\ poll' \in Poll /\ poll'.pc = "found" /\ poll'.stale = poll.stale
      /\ \/ /\ clipboard.c \in Files \/ (clipboard.c \in Images /\ poll.c \in Texts)
            /\ poll'.c = clipboard.c /\ poll'.own = clipboard.own
         \/ poll'.c = poll.c /\ poll'.own = poll.own
  <2>1. poll' \in Poll  BY <1>1, <1>2, StateTyped DEF Poll, Content
  <2>2. poll'.pc = "found" /\ poll'.stale = poll.stale  BY <1>1, <1>2 DEF Poll
  <2>3. \/ /\ clipboard.c \in Files \/ (clipboard.c \in Images /\ poll.c \in Texts)
           /\ poll'.c = clipboard.c /\ poll'.own = clipboard.own
        \/ poll'.c = poll.c /\ poll'.own = poll.own
    BY <1>1, <1>2 DEF Poll
  <2> QED BY <2>1, <2>2, <2>3
<1>4. AgentTypeOK'
  BY <1>2, <1>3 DEF AgentInv, AgentTypeOK, machine, vault, guards, watch, socket, slips
<1>5. PollFits'  BY <1>1, <1>3 DEF PollFits, Contents
<1>6. handler' = handler /\ slipped' = slipped /\ SameGuards /\ SameRefresh /\ (Anew' <=> Anew)
  BY <1>2 DEF SameGuards, SameRefresh, machine, guards, slips, Anew
<1>7. ASSUME ~slipped'  PROVE PollKnows' /\ NoEcho' /\ (writing => poll'.stale)
  <2>1. Written /\ PollKnows  BY <1>6, <1>7 DEF AgentInv, Unslipped
  <2>2. writing => poll'.stale  BY <1>1, <1>3, <2>1 DEF Written
  <2>3. clipboard' = clipboard /\ receivedTag' = receivedTag /\ lastHandled' = lastHandled
    BY <1>6 DEF SameGuards
  <2>4. NoEcho'  BY <1>3 DEF NoEcho
  <2>5. PollKnows'
    <3> SUFFICES ASSUME ~poll.stale  PROVE PollKnows'  BY <1>3 DEF PollKnows
    <3>1. /\ ~Anew /\ (clipboard.own \/ (~poll.own /\ clipboard.c = poll.c))
          /\ ~poll.own => poll.c \in Files /\ receivedTag = DigestTag(poll.c)
      BY <1>1, <2>1 DEF PollKnows, ReadsAsText
    <3>2. \/ poll'.own = clipboard.own /\ poll'.c = clipboard.c
          \/ poll'.own = poll.own /\ poll'.c = poll.c
      BY <1>3
    <3>3. clipboard.own \/ (~poll'.own /\ clipboard.c = poll'.c)  BY <3>1, <3>2
    <3>4. ~poll'.own => poll'.c \in Files /\ receivedTag = DigestTag(poll'.c)  BY <3>1, <3>2
    <3>5. ~poll'.own => poll'.c \notin Texts /\ poll'.c \notin Images
      BY <3>4, StateTyped DEF Constants
    <3> QED BY <1>3, <1>6, <2>3, <3>1, <3>3, <3>4, <3>5 DEF PollKnows
  <2> QED BY <2>2, <2>4, <2>5
<1>8. CASE ~slipped'  BY <1>4, <1>5, <1>6, <1>7, <1>8, PollMoves DEF Slipped
<1>9. CASE slipped'
  <2>1. Unslipped'  BY <1>9 DEF Unslipped
  <2> QED BY <1>4, <1>5, <1>6, <2>1, HandlersKept, Together
<1> QED BY <1>8, <1>9

\* What is sent is the user's, and the clipboard's is, too; the file that was
\* received has a digest to be told by.
LEMMA TextReadFits == AgentInv /\ TextRead => AgentInv'
<1> SUFFICES ASSUME AgentInv, TextRead PROVE AgentInv'  OBVIOUS
<1>1. poll.pc = "found" /\ poll \in Poll /\ poll.c \in Contents
  BY StateTyped DEF TextRead, AgentInv, PollFits
<1>2. /\ UNCHANGED <<machine, vault, fails, candidate, receivedTag, watch, socket,
                     writing, recheck, imageTick, handler, keys, refreshing, slips>>
      /\ \/ poll' = Quiet /\ lastHandled' = lastHandled
         \/ /\ ~poll.stale /\ poll.c \in Files
            /\ poll' = [poll EXCEPT !.pc = "files tag"] /\ lastHandled' = lastHandled
         \/ /\ ~poll.stale /\ ~(poll.c \in Files /\ receivedTag # NoTag)
            /\ poll' = [poll EXCEPT !.pc = "sent", !.tag = poll.tag, !.e = keys]
            /\ lastHandled' = poll.tag
  BY DEF TextRead, Overtaken, Claims
<1>3. poll' = [poll EXCEPT !.pc = "files tag"] =>
        /\ poll' \in Poll /\ poll'.pc = "files tag" /\ poll'.stale = poll.stale
        /\ poll'.c = poll.c /\ poll'.own = poll.own
  BY <1>1 DEF Poll
<1>4. poll' = [poll EXCEPT !.pc = "sent", !.tag = poll.tag, !.e = keys] =>
        /\ poll' \in Poll /\ poll'.pc = "sent" /\ poll'.stale = poll.stale
        /\ poll'.c = poll.c /\ poll'.own = poll.own
  BY <1>1, StateTyped, PollTyped DEF Poll
<1>5. poll' = Quiet => poll' \in Poll /\ poll'.pc = "idle"  BY StateTyped, FreeTyped
<1>6. AgentTypeOK'
  <2>1. poll' \in Poll /\ lastHandled' \in Tags
    BY <1>1, <1>2, <1>3, <1>4, <1>5, StateTyped, PollTyped
  <2>2. poll'.pc = "sent" => poll'.c # NoContent
    BY <1>1, <1>2, <1>3, <1>4, <1>5, StateTyped DEF Constants
  <2> QED BY <1>2, <2>1, <2>2 DEF AgentInv, AgentTypeOK, machine, vault, watch, socket, slips
<1>7. PollFits'  BY <1>1, <1>2, <1>3, <1>4, <1>5 DEF PollFits
<1>8. /\ handler' = handler /\ Slipped /\ SameRefresh /\ slipped' = slipped
      /\ UNCHANGED <<clipboard, receivedTag, writing, keys>> /\ (Anew' <=> Anew)
  BY <1>2 DEF Slipped, SameRefresh, slips, machine, Anew
<1>9. CASE poll' = Quiet /\ lastHandled' = lastHandled
  <2>1. SameGuards  BY <1>8, <1>9 DEF SameGuards
  <2>2. PollKnows' /\ NoEcho'  BY <1>5, <1>9 DEF PollKnows, NoEcho
  <2> QED BY <1>5, <1>6, <1>7, <1>8, <1>9, <2>1, <2>2, PollMoves
<1>10. CASE /\ ~poll.stale /\ poll.c \in Files /\ lastHandled' = lastHandled
            /\ poll' = [poll EXCEPT !.pc = "files tag"]
  <2>1. SameGuards  BY <1>8, <1>10 DEF SameGuards
  <2>2. ASSUME ~slipped'  PROVE PollKnows' /\ NoEcho' /\ ~writing
    <3>1. PollKnows /\ ~writing  BY <1>1, <1>8, <1>10, <2>2, NotWriting DEF AgentInv, Unslipped
    <3>2. /\ ~Anew /\ (clipboard.own \/ (~poll.own /\ clipboard.c = poll.c))
          /\ ~poll.own => receivedTag = DigestTag(poll.c)
      BY <1>1, <1>10, <3>1 DEF PollKnows
    <3>3. poll.c \notin Texts /\ poll.c \notin Images  BY <1>10, StateTyped DEF Constants
    <3>4. PollKnows' /\ NoEcho'  BY <1>3, <1>8, <1>10, <3>2, <3>3 DEF PollKnows, NoEcho
    <3> QED BY <3>1, <3>4
  <2>3. CASE ~slipped'  BY <1>6, <1>7, <1>8, <2>1, <2>2, <2>3, PollMoves
  <2>4. CASE slipped'
    <3>1. Unslipped'  BY <2>4 DEF Unslipped
    <3> QED BY <1>6, <1>7, <1>8, <3>1, HandlersKept, Together
  <2> QED BY <2>3, <2>4
<1>11. CASE /\ ~poll.stale /\ ~(poll.c \in Files /\ receivedTag # NoTag)
            /\ poll' = [poll EXCEPT !.pc = "sent", !.tag = poll.tag, !.e = keys]
  <2>1. ~slipped => poll.own /\ clipboard.own
    <3> SUFFICES ASSUME ~slipped  PROVE poll.own /\ clipboard.own  OBVIOUS
    <3>1. PollKnows  BY DEF AgentInv, Unslipped
    <3>2. DigestTag(poll.c) # NoTag  BY <1>1, StateTyped DEF DigestTag, NoTag, Constants
    <3>3. ~poll.own => poll.c \in Files /\ receivedTag = DigestTag(poll.c)
      <4>1. poll.c \in Images => poll.own  
        BY <1>1, <1>11, <3>1 DEF PollKnows
      <4> QED BY <1>1, <1>11, <3>1, <4>1 DEF PollKnows, Contents
    <3>4. poll.own  BY <1>11, <3>2, <3>3
    <3> QED BY <1>1, <1>11, <3>1, <3>4 DEF PollKnows
  <2>2. ~slipped => PollKnows' /\ NoEcho'
    BY <1>4, <1>8, <1>11, <2>1 DEF PollKnows, NoEcho
  <2> QED BY <1>1, <1>6, <1>7, <1>8, <1>11, <2>1, <2>2, GuardMoves
<1> QED BY <1>2, <1>9, <1>10, <1>11

\* A file that is not the user's is recognised, or a file received since has
\* overtaken the read.
LEMMA FilesTaggedFits == AgentInv /\ FilesTagged => AgentInv'
<1> SUFFICES ASSUME AgentInv, FilesTagged PROVE AgentInv'  OBVIOUS
<1>1. /\ poll.pc = "files tag" /\ poll \in Poll /\ poll.c \in Contents /\ poll.c \in Files
      /\ poll.tag \in Tags
  BY StateTyped, PollTyped DEF FilesTagged, AgentInv, PollFits
<1>2. /\ UNCHANGED <<clipboard, copied, vault, fails, candidate, receivedTag, watch, socket,
                     writing, recheck, imageTick, handler, keys, refreshing, swallowed>>
      /\ slipped' = (slipped \/ poll.stale) /\ lastHandled' = poll.tag
      /\ \/ receivedTag = DigestTag(poll.c) /\ poll' = Quiet
         \/ /\ receivedTag # DigestTag(poll.c)
            /\ poll' = [poll EXCEPT !.pc = "sent", !.tag = poll.tag, !.e = keys]
  BY DEF FilesTagged, Claims, SlipsIf
<1>3. unsent' \in BOOLEAN /\ slipped' \in BOOLEAN
  <2>1. unsent' \in BOOLEAN  BY StateTyped DEF FilesTagged, Recognises
  <2>2. slipped' \in BOOLEAN  BY <1>1, <1>2, StateTyped, PollTyped
  <2> QED BY <2>1, <2>2
<1>4. poll' = [poll EXCEPT !.pc = "sent", !.tag = poll.tag, !.e = keys] =>
        /\ poll' \in Poll /\ poll'.pc = "sent" /\ poll'.stale = poll.stale
        /\ poll'.c = poll.c /\ poll'.own = poll.own
  BY <1>1, StateTyped DEF Poll
<1>5. poll' = Quiet => poll' \in Poll /\ poll'.pc = "idle"  BY StateTyped, FreeTyped
<1>6. AgentTypeOK'
  <2>1. {unsent, writing, recheck, quiet, watching, online, connectedBefore, stopped,
         slipped, swallowed}' \subseteq BOOLEAN
    BY <1>2, <1>3 DEF AgentInv, AgentTypeOK, watch, socket
  <2>2. poll' \in Poll /\ lastHandled' \in Tags /\ (poll'.pc = "sent" => poll'.c # NoContent)
    BY <1>1, <1>2, <1>4, <1>5, StateTyped DEF Constants
  <2> QED BY <1>2, <2>1, <2>2 DEF AgentInv, AgentTypeOK, vault
<1>7. PollFits'  BY <1>1, <1>2, <1>4, <1>5 DEF PollFits
<1>8. /\ handler' = handler /\ Slipped /\ SameRefresh
      /\ UNCHANGED <<clipboard, receivedTag, writing, keys>>
  BY <1>2 DEF Slipped, SameRefresh
<1>9. ASSUME ~slipped'
      PROVE  /\ ~slipped /\ ~poll.stale
             /\ clipboard.own \/ (~poll.own /\ clipboard.c = poll.c)
             /\ ~poll.own => receivedTag = DigestTag(poll.c)
  <2>1. ~slipped /\ ~poll.stale  BY <1>2, <1>9, StateTyped
  <2> QED BY <1>1, <2>1 DEF AgentInv, Unslipped, PollKnows
<1>10. ASSUME ~slipped'  PROVE PollKnows' /\ NoEcho'
  <2>1. CASE poll' = Quiet  BY <1>5, <2>1 DEF PollKnows, NoEcho
  <2>2. CASE /\ receivedTag # DigestTag(poll.c)
             /\ poll' = [poll EXCEPT !.pc = "sent", !.tag = poll.tag, !.e = keys]
    <3>1. poll.own /\ clipboard.own  BY <1>9, <1>10, <2>2
    <3> QED BY <1>4, <1>8, <2>2, <3>1 DEF PollKnows, NoEcho
  <2> QED BY <1>2, <2>1, <2>2
<1> QED BY <1>1, <1>6, <1>7, <1>8, <1>9, <1>10, GuardMoves

LEMMA DigestedFits == AgentInv /\ Digested => AgentInv'
<1> SUFFICES ASSUME AgentInv, Digested PROVE AgentInv'  OBVIOUS
<1>1. /\ poll.pc = "digest" /\ poll \in Poll /\ poll.c \in Contents
      /\ poll.c \in Images \cup Files /\ poll.tag = DigestTag(poll.c) /\ poll.tag \in Tags
  BY StateTyped, PollTyped DEF Digested, AgentInv, PollFits
<1>2. /\ UNCHANGED <<clipboard, copied, epoch, remote, fails, receivedTag, watch, socket,
                     writing, recheck, imageTick, handler, keys, refreshing, swallowed>>
      /\ slipped' = (slipped \/ poll.stale)
      /\ \/ /\ poll.c \in Files /\ poll.tag = receivedTag
            /\ lastHandled' = poll.tag /\ poll' = Quiet
            /\ UNCHANGED <<candidate, newest>>
         \/ /\ ~(poll.c \in Files /\ poll.tag = receivedTag)
            /\ poll.tag # lastHandled
            /\ poll' = [poll EXCEPT !.pc = "sent", !.tag = poll.tag, !.e = keys]
            /\ lastHandled' = poll.tag
            /\ Settles(poll.tag)
         \/ poll' = Quiet /\ lastHandled' = lastHandled /\ Settles(poll.tag)
  BY DEF Digested, Claims, SlipsIf, Settled
<1>3. unsent' \in BOOLEAN /\ slipped' \in BOOLEAN
  <2>1. unsent' \in BOOLEAN  BY StateTyped DEF Digested, Recognises
  <2>2. slipped' \in BOOLEAN  BY <1>1, <1>2, StateTyped, PollTyped
  <2> QED BY <2>1, <2>2
<1>4. /\ poll' \in Poll /\ lastHandled' \in Tags
      /\ \/ poll'.pc = "idle"
         \/ poll'.pc = "sent" /\ poll'.c = poll.c /\ poll'.own = poll.own /\ poll'.stale = poll.stale
  BY <1>1, <1>2, StateTyped, FreeTyped, PollTyped DEF Poll
<1>5. candidate' \in Tags /\ newest' \in Clip
  BY <1>1, <1>2, SettlesTyped DEF AgentInv, AgentTypeOK
<1>6. AgentTypeOK'
  <2>1. {unsent, writing, recheck, quiet, watching, online, connectedBefore, stopped,
         slipped, swallowed}' \subseteq BOOLEAN
    BY <1>2, <1>3 DEF AgentInv, AgentTypeOK, watch, socket
  <2>2. poll'.pc = "sent" => poll'.c # NoContent  BY <1>1, <1>4, StateTyped DEF Constants
  <2> QED BY <1>2, <1>4, <1>5, <2>1, <2>2 DEF AgentInv, AgentTypeOK
<1>7. PollFits'  BY <1>1, <1>4 DEF PollFits
<1>8. /\ handler' = handler /\ Slipped /\ SameRefresh
      /\ UNCHANGED <<clipboard, receivedTag, writing, keys>>
  BY <1>2 DEF Slipped, SameRefresh
<1>9. ~slipped' => ~slipped /\ ~poll.stale  BY <1>2, StateTyped
<1>10. CASE poll.c \in Files /\ poll.tag = receivedTag /\ poll' = Quiet
  <2>1. poll'.pc = "idle"  BY <1>10, StateTyped, FreeTyped
  <2>2. PollKnows' /\ NoEcho'  BY <2>1 DEF PollKnows, NoEcho
  <2>3. ~slipped' => clipboard.own \/ clipboard.c \in Files
    BY <1>1, <1>9, <1>10 DEF AgentInv, Unslipped, PollKnows
  <2> QED BY <1>1, <1>6, <1>7, <1>8, <1>9, <2>2, <2>3, GuardMoves
<1>11. CASE /\ ~(poll.c \in Files /\ poll.tag = receivedTag) /\ poll.tag # lastHandled
            /\ poll'.pc = "sent"
  <2>1. poll'.own = poll.own  BY <1>4, <1>11
  <2>2. ~slipped' => poll.own /\ clipboard.own
    <3> SUFFICES ASSUME ~slipped'  PROVE poll.own /\ clipboard.own  OBVIOUS
    <3>1. PollKnows /\ ~poll.stale  BY <1>9 DEF AgentInv, Unslipped
    <3>2. poll.own  BY <1>1, <1>11, <3>1 DEF PollKnows
    <3> QED BY <1>1, <1>11, <3>1, <3>2 DEF PollKnows
  <2>3. ~slipped' => PollKnows' /\ NoEcho'
    BY <1>8, <1>11, <2>1, <2>2 DEF PollKnows, NoEcho
  <2> QED BY <1>1, <1>6, <1>7, <1>8, <1>9, <1>11, <2>2, <2>3, GuardMoves
<1>12. CASE poll' = Quiet /\ lastHandled' = lastHandled
  <2>1. SameGuards  BY <1>8, <1>12 DEF SameGuards
  <2>2. poll'.pc = "idle"  BY <1>12, StateTyped, FreeTyped
  <2>3. PollKnows' /\ NoEcho'  BY <2>2 DEF PollKnows, NoEcho
  <2> QED BY <1>6, <1>7, <1>8, <2>1, <2>2, <2>3, PollMoves
<1>13. poll' = [poll EXCEPT !.pc = "sent", !.tag = poll.tag, !.e = keys] => poll'.pc = "sent"
  BY <1>1, <1>4 DEF Poll
<1> QED BY <1>2, <1>10, <1>11, <1>12, <1>13

-----------------------------------------------------------------------------
(* Sending.                                                                *)

\* What is being sent, unless it has been overtaken, was and is the user's.
LEMMA SentIsOwn ==
    ASSUME AgentInv, poll.pc = "sent", ~slipped, ~poll.stale
    PROVE  poll.own /\ clipboard.own
<1>1. PollKnows /\ NoEcho  BY DEF AgentInv, Unslipped
<1>2. poll.own  BY <1>1 DEF NoEcho
<1> QED BY <1>1, <1>2 DEF PollKnows

LEMMA AcceptedFits == AgentInv /\ Accepted => AgentInv'
<1> SUFFICES ASSUME AgentInv, Accepted PROVE AgentInv'  OBVIOUS
<1>1. poll.pc = "sent" /\ poll \in Poll /\ poll.c \in Content  BY StateTyped, PollTyped DEF Accepted
<1>2. /\ newest' = [c |-> poll.c, e |-> epoch, mine |-> TRUE, newer |-> TRUE]
      /\ poll' = Quiet
      /\ UNCHANGED <<clipboard, copied, epoch, remote, fails, guards, watch, socket, writing,
                     recheck, imageTick, handler, keys, refreshing, slips>>
  BY DEF Accepted
<1>3. unsent' \in BOOLEAN  BY StateTyped DEF Accepted, DealtWith
<1>4. newest' \in Clip  BY <1>1, <1>2, StateTyped DEF Clip, Content
<1>5. poll' \in Poll /\ poll'.pc = "idle"  BY <1>2, StateTyped, FreeTyped
<1>6. AgentTypeOK'
  <2>1. {unsent, writing, recheck, quiet, watching, online, connectedBefore, stopped,
         slipped, swallowed}' \subseteq BOOLEAN
    BY <1>2, <1>3 DEF AgentInv, AgentTypeOK, watch, socket, slips
  <2> QED BY <1>2, <1>4, <1>5, <2>1 DEF AgentInv, AgentTypeOK, guards
<1>7. handler' = handler /\ Slipped /\ SameGuards /\ SameRefresh
  BY <1>2 DEF Slipped, SameGuards, SameRefresh, guards, slips
<1> QED BY <1>5, <1>6, <1>7, PollIdles

LEMMA KeyAwaitedFits == AgentInv /\ KeyAwaited => AgentInv'
<1> SUFFICES ASSUME AgentInv, KeyAwaited PROVE AgentInv'  OBVIOUS
<1>1. poll' \in Poll /\ poll'.pc = "idle"  BY StateTyped, FreeTyped DEF KeyAwaited
<1>2. AgentTypeOK'
  BY <1>1 DEF AgentInv, AgentTypeOK, KeyAwaited, machine, vault, guards, watch, socket, slips
<1>3. handler' = handler /\ Slipped /\ SameGuards /\ SameRefresh
  BY DEF KeyAwaited, Slipped, SameGuards, SameRefresh, machine, guards, slips
<1> QED BY <1>1, <1>2, <1>3, PollIdles

\* A send that fails, one way or another, and is over.
LEMMA SendOver ==
    ASSUME AgentInv, AgentTypeOK', poll.pc = "sent", poll'.pc \in {"idle", "await key"},
           Overwrites(poll.tag), handler' = handler, SameRefresh,
           UNCHANGED <<clipboard, receivedTag, writing, keys>>
    PROVE  AgentInv'
<1>1. PollFits' /\ PollKnows' /\ NoEcho'
  <2>1. PollFits' /\ NoEcho'  BY DEF PollFits, NoEcho
  <2>2. PollKnows'  BY DEF PollKnows
  <2> QED BY <2>1, <2>2
<1>2. slipped' = (slipped \/ (poll.stale \/ lastHandled # poll.tag)) BY DEF Overwrites, SlipsIf
<1>3. Slipped /\ (~slipped' => ~slipped /\ ~poll.stale)  BY <1>2, StateTyped DEF Slipped
<1> QED BY <1>1, <1>3, SentIsOwn, GuardMoves

LEMMA StaleFits == AgentInv /\ Stale => AgentInv'
<1> SUFFICES ASSUME AgentInv, Stale PROVE AgentInv'  OBVIOUS
<1>1. /\ poll.pc = "sent" /\ lastHandled' = NoTag /\ Overwrites(poll.tag)
      /\ poll' = [poll EXCEPT !.pc = "await key"]
      /\ UNCHANGED <<machine, vault, fails, candidate, receivedTag, watch, socket, writing, recheck,
                     imageTick, handler, keys>>
  BY DEF Stale
<1>2. slipped' \in BOOLEAN /\ swallowed' = swallowed
  <2>1. PICK b \in BOOLEAN : b = (poll.stale \/ lastHandled # poll.tag)  BY StateTyped, PollTyped
  <2> QED BY <1>1, <2>1, StateTyped DEF Overwrites, SlipsIf
<1>3. refreshing' = refreshing \/ (refreshing.pc = "idle" /\ refreshing' = [refreshing EXCEPT !.pc = "fetch"])
  BY DEF Stale, Asks
<1>4. refreshing' \in Refresh /\ SameRefresh
  BY <1>3, StateTyped DEF Refresh, SameRefresh, Anew
<1>5. poll' \in Poll /\ poll'.pc = "await key"  BY <1>1, StateTyped DEF Poll
<1>6. AgentTypeOK'
  <2>1. {unsent, writing, recheck, quiet, watching, online, connectedBefore, stopped,
         slipped, swallowed}' \subseteq BOOLEAN
    BY <1>1, <1>2 DEF AgentInv, AgentTypeOK, machine, watch, socket
  <2>2. lastHandled' \in Tags  BY <1>1, StateTyped, TagsAre
  <2> QED BY <1>1, <1>4, <1>5, <2>1, <2>2 DEF AgentInv, AgentTypeOK, machine, vault
<1>7. UNCHANGED <<clipboard, receivedTag, writing, keys>> /\ handler' = handler
  BY <1>1 DEF machine
<1> QED BY <1>1, <1>4, <1>5, <1>6, <1>7, SendOver

LEMMA SendFailsFits == AgentInv /\ (SendFails \/ SendRefused) => AgentInv'
<1> SUFFICES ASSUME AgentInv, SendFails \/ SendRefused PROVE AgentInv'  OBVIOUS
<1>1. /\ poll.pc = "sent" /\ lastHandled' \in {NoTag, poll.tag} /\ Overwrites(poll.tag)
      /\ poll' = Quiet
      /\ UNCHANGED <<clipboard, copied, vault, candidate, receivedTag, watch, socket, writing,
                     recheck, imageTick, handler, keys, refreshing>>
  BY DEF SendFails, SendRefused, SendsAgain, machine
<1>2. slipped' \in BOOLEAN /\ swallowed' = swallowed
  <2>1. PICK b \in BOOLEAN : b = (poll.stale \/ lastHandled # poll.tag)  BY StateTyped, PollTyped
  <2> QED BY <1>1, <2>1, StateTyped DEF Overwrites, SlipsIf
<1>3. fails' \in 0..MaxFails  BY DEF SendFails, SendRefused, AgentInv, AgentTypeOK, Constants
<1>4. unsent' \in BOOLEAN  BY StateTyped DEF SendFails, SendRefused, DealtWith, machine
<1>5. poll' \in Poll /\ poll'.pc = "idle"  BY <1>1, StateTyped, FreeTyped
<1>6. AgentTypeOK'
  <2>1. {unsent, writing, recheck, quiet, watching, online, connectedBefore, stopped,
         slipped, swallowed}' \subseteq BOOLEAN
    BY <1>1, <1>2, <1>4 DEF AgentInv, AgentTypeOK, watch, socket
  <2>2. lastHandled' \in Tags  BY <1>1, StateTyped, TagsAre, PollTyped
  <2> QED BY <1>1, <1>3, <1>5, <2>1, <2>2 DEF AgentInv, AgentTypeOK, vault
<1>7. UNCHANGED <<clipboard, receivedTag, writing, keys>> /\ handler' = handler /\ SameRefresh
  BY <1>1 DEF SameRefresh
<1> QED BY <1>1, <1>5, <1>6, <1>7, SendOver

-----------------------------------------------------------------------------
(* A new key.                                                              *)

\* The hash of a text is under the key of its epoch, so the guard that holds one
\* is to be primed anew.
LEMMA RefreshedFits == AgentInv /\ Refreshed => AgentInv'
<1> SUFFICES ASSUME AgentInv, Refreshed PROVE AgentInv'  OBVIOUS
<1>1. /\ refreshing.pc = "fetch" /\ ~Anew /\ refreshing \in Refresh
      /\ UNCHANGED <<machine, vault, fails, lastHandled, receivedTag, watch, socket, writing,
                     recheck, imageTick, handler, slips>>
  BY StateTyped DEF Refreshed, Anew
<1>2. handler' = handler /\ Slipped /\ slipped' = slipped /\ clipboard' = clipboard
      /\ epoch' = epoch
  BY <1>1 DEF Slipped, slips, machine, vault
<1>3. CASE epoch = keys
  <2>1. refreshing' = NoRefresh /\ keys' = keys /\ candidate' = candidate /\ poll' = poll
    BY <1>3 DEF Refreshed
  <2>2. refreshing' \in Refresh /\ SameRefresh
    BY <1>1, <2>1, StateTyped, FreeTyped DEF SameRefresh, Anew
  <2>3. AgentTypeOK'
    BY <1>1, <2>1, <2>2 DEF AgentInv, AgentTypeOK, machine, vault, watch, socket, slips
  <2>4. SameGuards  BY <1>1, <1>2, <2>1 DEF SameGuards
  <2> QED BY <1>2, <2>1, <2>2, <2>3, <2>4, OtherStep
<1>4. CASE epoch # keys
  <2>1. /\ keys' = epoch /\ Overtakes /\ candidate' = NoTag
        /\ refreshing' = (IF lastHandled # NoTag /\ ~IsDigest(lastHandled)
                          THEN [refreshing EXCEPT !.pc = "read"] ELSE NoRefresh)
    BY <1>4 DEF Refreshed
  <2>2. /\ refreshing' \in Refresh /\ refreshing'.pc # "prime"
        /\ Anew' <=> (lastHandled # NoTag /\ ~IsDigest(lastHandled))
        /\ Anew' => refreshing'.pc = "read"
    BY <1>1, <2>1, StateTyped, FreeTyped DEF Refresh, Anew
  <2>3. AgentTypeOK'
    <3>1. keys' \in Epochs /\ keys' <= epoch'
      BY <1>2, <2>1, StateTyped DEF Epochs, Constants
    <3>2. poll' \in Poll /\ poll'.pc = poll.pc /\ poll'.c = poll.c  BY <2>1, OvertakenPoll
    <3>3. candidate' \in Tags  BY <2>1, StateTyped, TagsAre
    <3> QED BY <1>1, <2>2, <3>1, <3>2, <3>3 DEF AgentInv, AgentTypeOK, machine, vault, watch, socket, slips
  <2>4. PollFits'  BY <2>1, OvertakenPoll
  <2>5. ASSUME NEW c \in Contents, Known(c)  PROVE Known(c)'
    <3>1. CASE c \in Texts
      <4>1. lastHandled = TextTag(c, keys)  BY <1>1, <2>5, <3>1 DEF Known, Anew
      <4>2. refreshing'.pc = "read"  BY <2>2, <4>1, StateTyped, TagsDiffer
      <4> QED BY <3>1, <4>2, StateTyped DEF Known, Constants
    <3>2. CASE c \in Images
      <4>1. lastHandled = DigestTag(c)  BY <2>5, <3>2 DEF Known
      <4>2. \E e \in Epochs : e = keys  BY StateTyped
      <4>3. ~Anew'  BY <2>2, <4>1, <4>2, StateTyped, TagsDiffer
      <4> QED BY <1>1, <3>2, <4>1, <4>3, StateTyped DEF Known, Constants
    <3>3. CASE c \in Files
      BY <1>1, <2>5, <3>3, StateTyped DEF Known, Constants
    <3> QED BY <2>5, <3>1, <3>2, <3>3 DEF Contents
  <2>6. Unslipped'
    <3> SUFFICES ASSUME ~slipped'  PROVE (Written /\ Guarded /\ PollKnows /\ NoEcho)'
      BY DEF Unslipped
    <3>1. Written /\ Guarded /\ NoEcho  BY <1>2 DEF AgentInv, Unslipped
    <3>2. writing' = writing  BY <1>1
    <3>3. (\A h \in Handlers : Writer(h) => Known(handler[h].c))'
      <4> SUFFICES ASSUME NEW h \in Handlers, Writer(h)'  PROVE Known(handler[h].c)'
        OBVIOUS
      <4>1. PICK c : c = handler[h].c  OBVIOUS
      <4>2. Known(c) /\ c \in Contents
        BY <1>2, <3>1, <4>1 DEF Written, Writer, AgentInv, HandlerFits
      <4>3. Known(c)'  BY <2>5, <4>2
      <4> QED BY <1>2, <4>1, <4>3 DEF Known
    <3>4. Written'
      BY <1>2, <2>1, <2>2, <3>1, <3>2, <3>3, OvertakenPoll DEF Written, Writer
    <3>5. Guarded'
      <4> SUFFICES ASSUME ~writing', ~clipboard'.own
                   PROVE  clipboard'.c \in Contents /\ Known(clipboard.c)'
        BY DEF Guarded
      <4>1. clipboard.c \in Contents /\ Known(clipboard.c)
        BY <1>2, <3>1, <3>2 DEF Guarded
      <4>2. PICK c : c = clipboard.c  OBVIOUS
      <4>3. Known(c)'  BY <2>5, <4>1, <4>2
      <4> QED BY <1>2, <4>1, <4>2, <4>3 DEF Known
    <3>6. PollKnows' /\ NoEcho'  BY <1>2, <2>1, <3>1, OvertakenPoll DEF NoEcho
    <3> QED BY <3>4, <3>5, <3>6
  <2> QED BY <1>2, <2>3, <2>4, <2>6, HandlersKept, Together
<1> QED BY <1>3, <1>4

LEMMA PrimeReadsFits == AgentInv /\ PrimeReads => AgentInv'
<1> SUFFICES ASSUME AgentInv, PrimeReads PROVE AgentInv'  OBVIOUS
<1>1. /\ refreshing.pc = "read"
      /\ refreshing' = [pc |-> "prime", was |-> lastHandled,
                        c |-> IF ReadsAsText(clipboard.c) THEN clipboard.c ELSE NoContent]
      /\ swallowed' = (swallowed \/ (ReadsAsText(clipboard.c) /\ unsent))
      /\ slipped' = (slipped \/ writing)
      /\ UNCHANGED <<machine, vault, fails, guards, watch, socket, writing, recheck, imageTick,
                     poll, handler, keys>>
  BY DEF PrimeReads
<1>2. refreshing' \in Refresh  BY <1>1, StateTyped DEF Refresh, Content
<1>3. slipped' \in BOOLEAN /\ swallowed' \in BOOLEAN
  <2>1. swallowed' \in BOOLEAN  BY <1>1 DEF AgentInv, AgentTypeOK
  <2> QED BY <1>1, <2>1, StateTyped
<1>4. AgentTypeOK'
  <2>1. {unsent, writing, recheck, quiet, watching, online, connectedBefore, stopped,
         slipped, swallowed}' \subseteq BOOLEAN
    BY <1>1, <1>3 DEF AgentInv, AgentTypeOK, machine, watch, socket
  <2> QED BY <1>1, <1>2, <2>1 DEF AgentInv, AgentTypeOK, machine, vault, guards
<1>5. PollFits'  BY <1>1 DEF AgentInv, PollFits
<1>6. /\ handler' = handler /\ clipboard' = clipboard /\ receivedTag' = receivedTag
      /\ writing' = writing
  BY <1>1 DEF machine, guards
<1>7. Unslipped'
  <2> SUFFICES ASSUME ~slipped'  PROVE (Written /\ Guarded /\ PollKnows /\ NoEcho)'
    BY DEF Unslipped
  <2>1. ~slipped /\ ~writing /\ Written /\ Guarded /\ PollKnows /\ NoEcho
    BY <1>1, <1>3, StateTyped DEF AgentInv, Unslipped
  <2>2. Written'  BY <1>6, <2>1 DEF Written, Writer
  <2>3. Guarded'
    <3> SUFFICES ASSUME ~clipboard'.own
                 PROVE  clipboard'.c \in Contents /\ Known(clipboard.c)'
      BY DEF Guarded
    <3>1. clipboard.c \in Contents /\ Known(clipboard.c)  BY <1>6, <2>1 DEF Guarded
    <3>2. clipboard.c \notin Images  BY <1>1, <3>1 DEF Known, Anew
    <3>3. clipboard.c \in Texts => refreshing'.pc = "prime" /\ refreshing'.c = clipboard.c
      BY <1>1 DEF ReadsAsText
    <3>4. clipboard.c \in Files => receivedTag = DigestTag(clipboard.c)  BY <3>1 DEF Known
    <3> QED BY <1>6, <3>1, <3>2, <3>3, <3>4 DEF Known
  <2>4. PollKnows' /\ NoEcho'
    <3>1. Anew  BY <1>1 DEF Anew
    <3>2. poll' = poll  BY <1>1
    <3> QED BY <1>6, <2>1, <3>1, <3>2 DEF PollKnows, NoEcho
  <2> QED BY <2>2, <2>3, <2>4
<1> QED BY <1>4, <1>5, <1>6, <1>7, HandlersKept, Together

LEMMA PrimesFits == AgentInv /\ Primes => AgentInv'
<1> SUFFICES ASSUME AgentInv, Primes PROVE AgentInv'  OBVIOUS
<1>1. /\ refreshing.pc = "prime" /\ refreshing' = NoRefresh
      /\ lastHandled' = (IF refreshing.c = NoContent THEN NoTag ELSE TextTag(refreshing.c, keys))
      /\ slipped' = (slipped \/ (lastHandled # refreshing.was)) /\ swallowed' = swallowed
      /\ UNCHANGED <<machine, vault, fails, candidate, receivedTag, watch, socket, writing, recheck,
                     imageTick, poll, handler, keys>>
  BY DEF Primes, SlipsIf
<1>2. refreshing' \in Refresh /\ ~Anew'  BY <1>1, StateTyped, FreeTyped DEF Anew
<1>3. slipped' \in BOOLEAN  BY <1>1, StateTyped
<1>4. lastHandled' \in Tags
  <2>1. keys \in Epochs /\ MaxEpoch \in Nat \ {0}  BY StateTyped DEF Constants
  <2>2. keys \in 0..MaxEpoch  BY <2>1 DEF Epochs
  <2>3. refreshing.c \in Content  BY StateTyped, RefreshTyped
  <2> QED BY <1>1, <2>2, <2>3, StateTyped, TagsAre
<1>5. AgentTypeOK'
  <2>1. {unsent, writing, recheck, quiet, watching, online, connectedBefore, stopped,
         slipped, swallowed}' \subseteq BOOLEAN
    BY <1>1, <1>3 DEF AgentInv, AgentTypeOK, machine, watch, socket
  <2> QED BY <1>1, <1>2, <1>4, <2>1 DEF AgentInv, AgentTypeOK, machine, vault
<1>6. PollFits'  BY <1>1 DEF AgentInv, PollFits
<1>7. /\ handler' = handler /\ clipboard' = clipboard /\ receivedTag' = receivedTag
      /\ writing' = writing /\ keys' = keys /\ poll' = poll
  BY <1>1 DEF machine
<1>8. Unslipped'
  <2> SUFFICES ASSUME ~slipped'  PROVE (Written /\ Guarded /\ PollKnows /\ NoEcho)'
    BY DEF Unslipped
  <2>1. ~slipped /\ Written /\ Guarded /\ PollKnows /\ NoEcho
    BY <1>1, <1>3, StateTyped DEF AgentInv, Unslipped
  <2>2. ~writing  BY <1>1, <2>1 DEF Written
  <2>3. Written'  BY <1>7, <2>1, <2>2 DEF Written, Writer
  <2>4. Guarded'
    <3> SUFFICES ASSUME ~clipboard'.own
                 PROVE  clipboard'.c \in Contents /\ Known(clipboard.c)'
      BY DEF Guarded
    <3>1. clipboard.c \in Contents /\ Known(clipboard.c)  BY <1>7, <2>1, <2>2 DEF Guarded
    <3>2. clipboard.c \notin Images  BY <1>1, <3>1 DEF Known, Anew
    <3>3. clipboard.c \in Texts => lastHandled' = TextTag(clipboard.c, keys)
      <4>1. clipboard.c # NoContent  BY <3>1, StateTyped DEF Constants
      <4>2. clipboard.c \in Texts => refreshing.c = clipboard.c  BY <1>1, <3>1 DEF Known, Anew
      <4> QED BY <1>1, <4>1, <4>2
    <3>4. clipboard.c \in Files => receivedTag = DigestTag(clipboard.c)  BY <3>1 DEF Known
    <3> QED BY <1>2, <1>7, <3>1, <3>2, <3>3, <3>4 DEF Known
  <2>5. PollKnows'
    <3>1. Anew  BY <1>1 DEF Anew
    <3>2. \/ poll.stale
          \/ poll.pc \notin {"hash", "files", "found", "files tag", "look", "check", "digest"}
      BY <2>1, <3>1 DEF PollKnows
    <3> QED BY <1>7, <2>1, <3>2 DEF PollKnows
  <2>6. NoEcho'  BY <1>7, <2>1 DEF NoEcho
  <2> QED BY <2>3, <2>4, <2>5, <2>6
<1> QED BY <1>5, <1>6, <1>7, <1>8, HandlersKept, Together

-----------------------------------------------------------------------------
(* The invariant, and what follows.                                        *)

LEMMA AgentInitially == Constants /\ AgentInit => AgentInv
<1> SUFFICES ASSUME Constants, AgentInit PROVE AgentInv  OBVIOUS
<1>1. PICK c \in Found : /\ clipboard = [c |-> c, own |-> TRUE]
                         /\ lastHandled = IF c = NoContent THEN NoTag ELSE TextTag(c, 1)
  BY DEF AgentInit
<1>2. c \in Content /\ 1 \in 0..MaxEpoch /\ 1 \in Epochs
  BY <1>1 DEF Constants, Content, Contents, Epochs
<1>3. lastHandled \in Tags /\ candidate \in Tags /\ receivedTag \in Tags
  BY <1>1, <1>2, TagsAre DEF AgentInit
<1>4. newest \in Clip  BY <1>2 DEF AgentInit, Clip, Content
<1>5. poll = Quiet /\ refreshing = NoRefresh /\ handler = [h \in Handlers |-> Free]
      /\ writing = FALSE /\ slipped = FALSE
  BY DEF AgentInit
<1>6. \A h \in Handlers : handler[h] = Free /\ HandlerFits(handler[h])
  BY <1>5, FreeFits
<1>7. AgentTypeOK
  <2>1. {unsent, writing, recheck, quiet, watching, online, connectedBefore, stopped,
         slipped, swallowed} \subseteq BOOLEAN
    BY DEF AgentInit, Constants
  <2>2. clipboard \in [c : Contents \cup {NoContent}, own : BOOLEAN]
    BY <1>1, <1>2 DEF Content
  <2>3. copied \in 0..MaxCopies /\ remote \in 0..MaxReceived /\ fails \in 0..MaxFails
        /\ imageTick \in 0..(ImagePollEvery - 1)
    BY DEF AgentInit, Constants
  <2>4. epoch \in Epochs /\ keys \in Epochs /\ keys <= epoch  BY <1>2 DEF AgentInit
  <2>5. handler \in [Handlers -> Handler] /\ poll \in Poll /\ refreshing \in Refresh /\ poll.pc = "idle"
    BY <1>5, FreeTyped
  <2> QED BY <1>3, <1>4, <1>5, <2>1, <2>2, <2>3, <2>4, <2>5 DEF AgentTypeOK
<1>8. poll.pc = "idle" /\ \A h \in Handlers : handler[h].pc = "idle"
  BY <1>5, <1>6, FreeTyped
<1>9. PollFits  BY <1>8 DEF PollFits
<1>10. Unslipped
  BY <1>1, <1>5, <1>8 DEF Unslipped, Written, Writer, Guarded, PollKnows, NoEcho
<1> QED BY <1>6, <1>7, <1>9, <1>10 DEF AgentInv

LEMMA Stepwise == AgentInv /\ [AgentNext]_agentVars => AgentInv'
<1> SUFFICES ASSUME AgentInv, [AgentNext]_agentVars PROVE AgentInv'  OBVIOUS
<1>1. ASSUME UserCopies \/ RemoteCopies \/ Rotates \/ Tick \/ QuietEnds \/ ReadsAgain \/ WatchEnds
             \/ Disconnects \/ GoesOnline \/ Stops
      PROVE  AgentInv'
  BY <1>1, UserCopiesFits, RemoteCopiesFits, RotatesFits, TickFits, QuietEndsFits, ReadsAgainFits,
     AsideFits, GoesOnlineFits
<1>2. ASSUME PollStep \/ SendFails \/ SendRefused
      PROVE  AgentInv'
  BY <1>2, ReadFits, HashedFits, ReadsBesideFits, TextReadFits, FilesTaggedFits, LookFits, ChecksFits, DigestedFits, AcceptedFits,
     StaleFits, KeyAwaitedFits, SendFailsFits DEF PollStep
<1>3. ASSUME NEW h \in Handlers, HandlerStep(h) \/ ApplyFails(h)
      PROVE  AgentInv'
  BY <1>3, ListsFits, OpensFits, GuardsFits, WritesFits, ReadsBackFits, ApplyFailsFits DEF HandlerStep
<1>4. ASSUME KeyStep \/ RefreshFails
      PROVE  AgentInv'
  BY <1>4, RefreshedFits, PrimeReadsFits, PrimesFits, RefreshFailsFits DEF KeyStep
<1> QED BY <1>1, <1>2, <1>3, <1>4, StutterFits DEF AgentNext

LEMMA AgentInductive == AgentSpec => []AgentInv
<1>1. Constants  BY ContentAssumption, AgentBounds DEF Constants
<1> QED BY <1>1, AgentInitially, Stepwise, PTL DEF AgentSpec

\* Every variable of the agent has its type; what is sent was read; and while
\* `writing` is set some event's handler is between its guard and its `finally`,
\* so polls are not locked out for good (daemon.ts, apply).
THEOREM AgentTypeCorrect == AgentSpec => []AgentTypeOK
<1>1. AgentInv => AgentTypeOK  BY DEF AgentInv
<1> QED BY <1>1, AgentInductive, PTL

\* Nothing another device copied is sent as this device's, until an order of steps
\* is met that the guards do not cover: lastHandled, the received file's digest
\* and `applied` recognise it (daemon.ts, poll, pollBinary and apply).
THEOREM NoEchoCorrect == AgentSpec => []NoEcho
<1>1. AgentInv => NoEcho  BY DEF AgentInv, Unslipped, NoEcho
<1> QED BY <1>1, AgentInductive, PTL

\* Only a text that was read, or a digest, is sent.
LEMMA SentBy ==
    ASSUME AgentInv, [AgentNext]_agentVars, poll.pc # "sent", poll'.pc = "sent"
    PROVE  TextRead \/ FilesTagged \/ Digested
<1>1. poll' # poll  OBVIOUS
<1>2. ~UNCHANGED agentVars  BY DEF agentVars
<1>3. /\ ~(UserCopies \/ RemoteCopies \/ Rotates \/ WatchEnds \/ Disconnects \/ GoesOnline \/ Stops)
      /\ ~RefreshFails /\ ~PrimeReads /\ ~Primes
  BY <1>1 DEF UserCopies, RemoteCopies, Rotates, WatchEnds, Disconnects, GoesOnline, Stops,
     RefreshFails, PrimeReads, Primes
<1>4. \A h \in Handlers : ~(Lists(h) \/ Opens(h) \/ Writes(h) \/ ReadsBack(h) \/ ApplyFails(h))
  BY <1>1 DEF Lists, Opens, Writes, ReadsBack, ApplyFails
<1>5. ~Overtakes  BY OvertakenPoll
<1>6. (\A h \in Handlers : ~Guards(h)) /\ ~Refreshed  BY <1>1, <1>5 DEF Guards, Refreshed
<1>7. Quiet.pc = "idle" /\ Quiet \in Poll /\ poll \in Poll  BY StateTyped, FreeTyped
<1>8. ~(Tick \/ QuietEnds \/ ReadsAgain)
  BY <1>1, <1>7 DEF Tick, QuietEnds, ReadsAgain, Starts, Poll
<1>9. ~(Read \/ Hashed \/ ReadsBeside)
  <2>1. ~Read  BY <1>1, <1>7 DEF Read, Poll
  <2>2. ~Hashed  BY <1>1, <1>7 DEF Hashed, Poll
  <2>3. ~ReadsBeside  BY <1>1, <1>7 DEF ReadsBeside, Poll
  <2> QED BY <2>1, <2>2, <2>3
<1>10. ~(Look \/ Checks)  BY <1>1, <1>7 DEF Look, Checks, Poll
<1>11. ~(Accepted \/ Stale \/ KeyAwaited \/ SendFails \/ SendRefused)
  BY <1>7 DEF Accepted, Stale, KeyAwaited, SendFails, SendRefused
<1> QED BY <1>2, <1>3, <1>4, <1>6, <1>8, <1>9, <1>10, <1>11
     DEF AgentNext, PollStep, HandlerStep, KeyStep

LEMMA SentIsThere ==
    ASSUME AgentInv, [AgentNext]_agentVars, poll.pc # "sent", poll'.pc = "sent", ~slipped'
    PROVE  ~writing /\ (clipboard.own \/ clipboard.c = poll'.c)
<1>1. poll \in Poll /\ Quiet.pc = "idle"  BY StateTyped, FreeTyped
<1>2. CASE TextRead
  <2>1. ~poll.stale /\ poll.pc = "found" /\ slipped' = slipped
    BY <1>1, <1>2 DEF TextRead, Overtaken, slips
  <2>3. poll' # [poll EXCEPT !.pc = "files tag"]  BY <1>1 DEF Poll
  <2>4. poll' = [poll EXCEPT !.pc = "sent", !.tag = poll.tag, !.e = keys]
    BY <1>1, <1>2, <2>3 DEF TextRead, Claims
  <2>2. poll'.c = poll.c  BY <1>1, <2>4 DEF Poll
  <2> QED BY <2>1, <2>2, NotWriting DEF AgentInv, Unslipped, PollKnows
<1>3. CASE FilesTagged
  <2>1. /\ poll.pc = "files tag" /\ slipped' = (slipped \/ poll.stale)
        /\ poll' = [poll EXCEPT !.pc = "sent", !.tag = poll.tag, !.e = keys]
    BY <1>1, <1>3 DEF FilesTagged, Claims, SlipsIf
  <2>2. poll'.c = poll.c /\ ~slipped /\ ~poll.stale  BY <1>1, <2>1, StateTyped DEF Poll
  <2> QED BY <2>1, <2>2, NotWriting DEF AgentInv, Unslipped, PollKnows
<1>4. CASE Digested
  <2>1. /\ poll.pc = "digest" /\ slipped' = (slipped \/ poll.stale)
        /\ poll' = [poll EXCEPT !.pc = "sent", !.tag = poll.tag, !.e = keys]
    BY <1>1, <1>4 DEF Digested, Claims, SlipsIf
  <2>2. poll'.c = poll.c /\ ~slipped /\ ~poll.stale  BY <1>1, <2>1, StateTyped DEF Poll
  <2> QED BY <2>1, <2>2, NotWriting DEF AgentInv, Unslipped, PollKnows
<1> QED BY <1>2, <1>3, <1>4, SentBy

\* Until then, what a poll goes on to send is what the clipboard holds or the user
\* has replaced, and no event is about to be written over it: a read that a clip
\* overtook is dropped (daemon.ts, poll's checks of `applied` and `writing`).
THEOREM SendsWhatIsThereCorrect == AgentSpec => SendsWhatIsThere
<1>1. AgentInv /\ [AgentNext]_agentVars =>
        [poll.pc # "sent" /\ poll'.pc = "sent" /\ ~slipped'
         => ~writing /\ (clipboard.own \/ clipboard.c = poll'.c)]_agentVars
  BY SentIsThere
<1> QED BY <1>1, AgentInductive, PTL DEF AgentSpec, SendsWhatIsThere
=============================================================================
