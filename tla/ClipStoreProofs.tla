--------------------------- MODULE ClipStoreProofs ---------------------------
(***************************************************************************)
(* What TLAPS proves of ClipStore for any number of devices, texts, ids,   *)
(* pins, re-keys and instants, and any page size.                          *)
(***************************************************************************)
EXTENDS ClipStore, FiniteSetTheorems, TLAPS

-----------------------------------------------------------------------------
(* Types.                                                                  *)

\* A ring that learns a key is a ring.
LEMMA WithKeyType ==
    ASSUME NEW r \in Ring, NEW e \in Epochs
    PROVE  WithKey(r, e) \in Ring
  BY DEF WithKey, Ring

\* A walk about to read its first page, or over, is a walk.
LEMMA FirstPageType ==
    ASSUME NEW e \in Epochs
    PROVE  FirstPage(e) \in Walk /\ IdleWalk \in Walk
  <1>1. 0 \in Epochs  BY BoundsAssumption DEF Epochs
  <1>2. NoCursor \in Cursor  BY DEF Cursor
  <1> QED  BY <1>1, <1>2 DEF FirstPage, IdleWalk, Walk

\* So is what follows a page.
LEMMA NextPageType ==
    ASSUME NEW w \in Walk
    PROVE  NextPage(w) \in Walk
  <1>1. w.target \in Epochs  BY DEF Walk
  <1>2. NoCursor \in Cursor  BY DEF Cursor
  <1>3. CASE w.next # NoCursor
    BY <1>2, <1>3 DEF NextPage, Walk
  <1>4. CASE w.next = NoCursor
    BY <1>1, <1>4, FirstPageType DEF NextPage
  <1> QED  BY <1>3, <1>4

\* The row a POST inserts.
LEMMA PostTypes ==
    ASSUME NEW p \in Post
    PROVE  TagOf(p) \in Tag /\ EnvelopeOf(p) \in Envelope
  BY DEF Post, TagOf, EnvelopeOf, Tag, Envelope

\* A row moved to the top is a row.
LEMMA MovedType ==
    ASSUME NEW row \in Row, NEW b \in Bump
    PROVE  Moved(row, b) \in Row
  <1>1. b.post \in Post /\ b.expires \in BOOLEAN  BY DEF Bump
  <1>2. EnvelopeOf(b.post) \in Envelope  BY <1>1, PostTypes
  <1> QED  BY <1>1, <1>2 DEF Moved, Row, Post

\* What a page of re-encryption holds.
LEMMA ResealType ==
    ASSUME TypeOK, NEW i \in DOMAIN clips, NEW e \in Epochs
    PROVE  Reseal(i, e) \in Item
  <1>1. clips[i] \in Row /\ i \in ClipIds  BY DEF TypeOK
  <1>2. /\ clips[i].envelope \in Envelope
        /\ clips[i].keyEpoch \in Epochs
        /\ clips[i].device \in Devices
    BY <1>1 DEF Row
  <1> QED  BY <1>1, <1>2 DEF Reseal, Item, Envelope, Tag

\* A re-encrypted row is a row.
LEMMA StampedType ==
    ASSUME NEW row \in Row, NEW item \in Item, NEW e \in Epochs
    PROVE  Stamped(row, item, e) \in Row
  BY DEF Stamped, Row, Item

\* Where a page ends is a cursor.
LEMMA NextCursorsType ==
    ASSUME TypeOK, NEW S \in SUBSET DOMAIN clips
    PROVE  NextCursors(S) \subseteq Cursor
  <1>1. \A i \in DOMAIN clips : clips[i].created \in 0..MaxClock /\ i \in ClipIds
    BY DEF TypeOK, Row
  <1>2. \A i \in DOMAIN clips : Key(i) \in Cursor
    BY <1>1 DEF Key, Cursor
  <1>3. PageOf(S) \subseteq DOMAIN clips  BY DEF PageOf
  <1> QED  BY <1>2, <1>3 DEF NextCursors, Cursor

\* Init and every step keep every variable in its set.
LEMMA TypeInit == Init => TypeOK
  <1> SUFFICES ASSUME Init PROVE TypeOK  OBVIOUS
  <1>1. 0 \in Epochs /\ 0 \in 0..MaxClock  BY BoundsAssumption DEF Epochs
  <1>2. [current |-> 0, keys |-> {0}] \in Ring  BY <1>1 DEF Ring
  <1>3. IdleWalk \in Walk  BY <1>1, FirstPageType
  <1>4. DOMAIN clips = {}  BY DEF Init
  <1>5. clips \in [DOMAIN clips -> Row]  BY <1>4 DEF Init
  <1> QED  BY <1>1, <1>2, <1>3, <1>4, <1>5 DEF Init, TypeOK

LEMMA TypeStep == TypeOK /\ [Next]_vars => TypeOK'
  <1> SUFFICES ASSUME TypeOK, [Next]_vars PROVE TypeOK'  OBVIOUS
  <1> USE DEF TypeOK
  <1>1. ASSUME NEW d \in Devices, NEW t \in Texts, Copy(d, t) PROVE TypeOK'
    <2>1. Seal(d, t) \in Post  BY DEF Seal, Post, Ring
    <2> QED  BY <1>1, <2>1 DEF Copy
  <1>2. ASSUME NEW d \in Devices, Retry(d) PROVE TypeOK'
    <2>1. \A t \in Texts : Seal(d, t) \in Post  BY DEF Seal, Post, Ring
    <2> QED  BY <1>2, <2>1 DEF Retry, Refused
  <1>3. ASSUME NEW d \in Devices, RefuseStale(d) PROVE TypeOK'
    BY <1>3 DEF RefuseStale, Refused, Post
  <1>4. ASSUME NEW d \in Devices, InsertClip(d) PROVE TypeOK'
    <2> PICK p \in posts, i \in ClipIds \ used :
              /\ used' = used \cup {i}
              /\ posts' = posts \ {p}
              /\ clips' = [j \in DOMAIN clips \cup {i} |->
                    IF j = i THEN Fresh(p) ELSE clips[j]]
      BY <1>4 DEF InsertClip
    <2>1. Fresh(p) \in Row
      <3>1. p \in Post  OBVIOUS
      <3> QED  BY <3>1, PostTypes DEF Post, Row, Fresh
    <2>2. clips' \in [DOMAIN clips' -> Row] /\ DOMAIN clips' \subseteq used'
      BY <2>1
    <2> QED  BY <1>4, <2>2 DEF InsertClip
  <1>5. ASSUME NEW d \in Devices, FindStored(d) PROVE TypeOK'
    <2>1. PICK p \in posts : \E i \in Newest(RowsHolding(TagOf(p))) :
              \/ bumps' = bumps
              \/ bumps' = bumps \cup {[post |-> p, id |-> i,
                                       pinned |-> clips[i].pinned,
                                       expires |-> clips[i].expires]}
      BY <1>5 DEF FindStored
    <2>2. ASSUME NEW i \in Newest(RowsHolding(TagOf(p)))
          PROVE  [post |-> p, id |-> i, pinned |-> clips[i].pinned,
                  expires |-> clips[i].expires] \in Bump
      <3>1. i \in ClipIds /\ clips[i] \in Row  BY DEF Newest, RowsHolding
      <3> QED  BY <3>1 DEF Bump, Row
    <2> QED  BY <1>5, <2>1, <2>2 DEF FindStored
  <1>6. ASSUME NEW d \in Devices, MoveToTop(d) PROVE TypeOK'
    BY <1>6, MovedType DEF MoveToTop
  <1>7. ASSUME NEW d \in Devices, Refresh(d) PROVE TypeOK'
    BY <1>7, WithKeyType DEF Refresh
  <1>8. ASSUME NEW d \in Devices, Rotate(d) PROVE TypeOK'
    <2>1. epoch + 1 \in Epochs  BY <1>8, BoundsAssumption DEF Rotate, Epochs
    <2> QED  BY <1>8, <2>1, WithKeyType, FirstPageType DEF Rotate
  <1>9. ASSUME NEW d \in Devices, Finish(d) PROVE TypeOK'
    BY <1>9, WithKeyType, FirstPageType DEF Finish
  <1>10. ASSUME NEW d \in Devices, ListPage(d) PROVE TypeOK'
    <2> DEFINE w == walk[d]
               opened == {i \in PageOf(Behind(w)) : Opens(d, i)}
               Read(next) == [w EXCEPT !.pc = "send", !.next = next,
                                  !.items = {Reseal(i, w.target) : i \in opened}]
    <2>1. w \in Walk /\ w.target \in Epochs  BY DEF Walk
    <2>2. Behind(w) \subseteq DOMAIN clips /\ opened \subseteq DOMAIN clips
      BY DEF Behind, PageOf
    <2>3. {Reseal(i, w.target) : i \in opened} \subseteq Item
      BY <2>1, <2>2, ResealType
    <2>4. NextCursors(Behind(w)) \subseteq Cursor  BY <2>2, NextCursorsType
    <2>5. \A next \in Cursor : Read(next) \in Walk  BY <2>1, <2>3 DEF Walk
    <2>6. \A next \in Cursor : NextPage(Read(next)) \in Walk  BY <2>5, NextPageType
    <2>7. \E next \in NextCursors(Behind(w)) :
             walk' = [walk EXCEPT ![d] = IF opened = {} THEN NextPage(Read(next))
                                         ELSE Read(next)]
      BY <1>10 DEF ListPage
    <2> HIDE DEF w, opened, Read
    <2>8. walk' \in [Devices -> Walk]  BY <2>4, <2>5, <2>6, <2>7
    <2> QED  BY <1>10, <2>8 DEF ListPage
  <1>11. ASSUME NEW d \in Devices, ReadEpoch(d) PROVE TypeOK'
    BY <1>11 DEF ReadEpoch, Walk
  <1>12. ASSUME NEW d \in Devices, WriteItems(d) PROVE TypeOK'
    <2> DEFINE w == walk[d]
               landing == {item \in w.items : Lands(item, w.server)}
               Sent(i) == CHOOSE item \in landing : item.id = i
    <2>1. w \in Walk  OBVIOUS
    <2>2. w.server \in Epochs /\ landing \subseteq Item  BY <2>1 DEF Walk
    <2>3. \A i : (\E item \in landing : item.id = i) => Sent(i) \in Item
      <3> HIDE DEF landing
      <3> QED  BY <2>2
    <2>4. clips' = [i \in DOMAIN clips |->
                       IF \E item \in landing : item.id = i
                       THEN Stamped(clips[i], Sent(i), w.server)
                       ELSE clips[i]]
      BY <1>12 DEF WriteItems
    <2>5. walk' = [walk EXCEPT ![d] =
                      NextPage([w EXCEPT !.moved = @ \/ landing # {}])]
      BY <1>12 DEF WriteItems
    <2>6. [w EXCEPT !.moved = @ \/ landing # {}] \in Walk
      BY <2>1 DEF Walk
    <2> HIDE DEF w, landing, Sent
    <2>7. clips' \in [DOMAIN clips' -> Row] /\ DOMAIN clips' = DOMAIN clips
      BY <2>2, <2>3, <2>4, StampedType
    <2>8. walk' \in [Devices -> Walk]  BY <2>5, <2>6, NextPageType
    <2> QED  BY <1>12, <2>7, <2>8 DEF WriteItems
  <1>13. ASSUME NEW i \in ClipIds, DeleteClip(i) PROVE TypeOK'
    BY <1>13 DEF DeleteClip, Without
  <1>14. ASSUME NEW i \in ClipIds, PinClip(i) PROVE TypeOK'
    BY <1>14 DEF PinClip, Row
  <1>15. ASSUME NEW i \in ClipIds, UnpinClip(i) PROVE TypeOK'
    BY <1>15 DEF UnpinClip, Row
  <1>16. CASE PurgeExpired
    BY <1>16 DEF PurgeExpired, Without
  <1>17. CASE Tick
    BY <1>17, BoundsAssumption DEF Tick
  <1>18. CASE UNCHANGED vars
    BY <1>18 DEF vars
  <1> QED
    BY <1>1, <1>2, <1>3, <1>4, <1>5, <1>6, <1>7, <1>8, <1>9, <1>10, <1>11,
       <1>12, <1>13, <1>14, <1>15, <1>16, <1>17, <1>18
    DEF Next, ServePost, WalkStep

\* Every variable holds what the code keeps there.
THEOREM TypeCorrect == Spec => []TypeOK
  BY TypeInit, TypeStep, PTL DEF Spec

-----------------------------------------------------------------------------
(* What a step may do to the rows.                                         *)

\* A copy adds the row it becomes, under an id no row has had.
RowAdded ==
    \E p \in posts, i \in ClipIds \ used :
        /\ MayInsert(p)
        /\ epoch' = epoch
        /\ used' = used \cup {i}
        /\ clips' = [j \in DOMAIN clips \cup {i} |->
                        IF j = i THEN Fresh(p) ELSE clips[j]]

\* Nothing else adds one.
LEMMA OnlyCopiesAdd ==
    ASSUME [Next]_vars
    PROVE  (DOMAIN clips' \subseteq DOMAIN clips /\ used' = used) \/ RowAdded
  <1>1. ASSUME NEW d \in Devices, NEW t \in Texts, Copy(d, t)
        PROVE  UNCHANGED <<clips, used>>
    BY <1>1 DEF Copy
  <1>2. ASSUME NEW d \in Devices,
               Retry(d) \/ RefuseStale(d) \/ FindStored(d) \/ Refresh(d)
                 \/ Rotate(d) \/ Finish(d) \/ ListPage(d) \/ ReadEpoch(d)
        PROVE  UNCHANGED <<clips, used>>
    BY <1>2 DEF Retry, RefuseStale, FindStored, Refresh, Rotate, Finish,
                ListPage, ReadEpoch
  <1>3. ASSUME NEW d \in Devices, MoveToTop(d) \/ WriteItems(d)
        PROVE  DOMAIN clips' = DOMAIN clips /\ used' = used
    BY <1>3 DEF MoveToTop, WriteItems
  <1>4. ASSUME NEW i \in ClipIds, DeleteClip(i) \/ PinClip(i) \/ UnpinClip(i)
        PROVE  DOMAIN clips' \subseteq DOMAIN clips /\ used' = used
    BY <1>4 DEF DeleteClip, PinClip, UnpinClip, Without
  <1>5. CASE PurgeExpired \/ Tick \/ UNCHANGED vars
    BY <1>5 DEF PurgeExpired, Tick, vars, Without
  <1>6. ASSUME NEW d \in Devices, InsertClip(d) PROVE RowAdded
    BY <1>6 DEF InsertClip, RowAdded
  <1> QED
    BY <1>1, <1>2, <1>3, <1>4, <1>5, <1>6 DEF Next, ServePost, WalkStep

\* Rows go by deletes and expiry alone, which leave the others as they are.
LEMMA OnlyDeletesShrink ==
    ASSUME [Next]_vars, ~(DOMAIN clips \subseteq DOMAIN clips')
    PROVE  \A i \in DOMAIN clips' : i \in DOMAIN clips /\ clips'[i] = clips[i]
  <1>1. ASSUME NEW S, clips' = Without(S)
        PROVE  \A i \in DOMAIN clips' : i \in DOMAIN clips /\ clips'[i] = clips[i]
    BY <1>1 DEF Without
  <1>2. (\E i \in ClipIds : DeleteClip(i)) \/ PurgeExpired
    BY DEF Next, Copy, Retry, ServePost, RefuseStale, InsertClip, FindStored,
           MoveToTop, Refresh, Rotate, Finish, WalkStep, ListPage, ReadEpoch,
           WriteItems, PinClip, UnpinClip, Tick, vars
  <1> QED  BY <1>1, <1>2 DEF DeleteClip, PurgeExpired

\* A deleted or expired clip never comes back under its id.
THEOREM DeletedStaysDeletedCorrect == Spec => DeletedStaysDeleted
  <1>1. TypeOK /\ [Next]_vars
          => [\A i \in used \ DOMAIN clips : i \notin DOMAIN clips']_vars
    <2> SUFFICES ASSUME TypeOK, [Next]_vars, NEW i \in used \ DOMAIN clips
                 PROVE  i \notin DOMAIN clips'
      OBVIOUS
    <2> QED  BY OnlyCopiesAdd DEF RowAdded, TypeOK
  <1> QED  BY <1>1, TypeCorrect, PTL DEF Spec, DeletedStaysDeleted

\* A row that appears is under the key the account is on at that moment.
THEOREM NewRowsUnderCurrentKeyCorrect == Spec => NewRowsUnderCurrentKey
  <1> DEFINE UnderCurrent(i) == /\ clips'[i].keyEpoch = epoch
                                /\ clips'[i].envelope.key = epoch
                                /\ clips'[i].hash.key = epoch
  <1>1. TypeOK /\ [Next]_vars
          => [\A i \in DOMAIN clips' \ DOMAIN clips : UnderCurrent(i)]_vars
    <2> SUFFICES ASSUME TypeOK, [Next]_vars, NEW i \in DOMAIN clips' \ DOMAIN clips
                 PROVE  UnderCurrent(i)
      OBVIOUS
    <2>1. PICK p \in posts, j \in ClipIds \ used :
             /\ MayInsert(p)
             /\ clips' = [k \in DOMAIN clips \cup {j} |->
                             IF k = j THEN Fresh(p) ELSE clips[k]]
      BY OnlyCopiesAdd DEF RowAdded
    <2>2. clips'[i] = Fresh(p) /\ p.key = epoch  BY <2>1 DEF MayInsert
    <2> QED  BY <2>2 DEF Fresh, EnvelopeOf, TagOf
  <1> QED  BY <1>1, TypeCorrect, PTL DEF Spec, NewRowsUnderCurrentKey

-----------------------------------------------------------------------------
(* Keys.  A row's order of keys survives because the requests that may     *)
(* still write it know enough about it: the tag of a row only ever moves   *)
(* to newer keys of the same text.                                         *)

\* A bump under way names a row once stored.  While the row lives, its tag is
\* of the text copied, under the key the copy was sealed with or a newer one.
BumpsKnowTheirRow ==
    \A b \in bumps :
        /\ b.id \in used
        /\ b.id \in DOMAIN clips
             => /\ clips[b.id].hash.text = b.post.text
                /\ b.post.key <= clips[b.id].hash.key

\* A row's header names its device, and its envelope and tag are of one text.
\* They need not be under one key: see OnlyOvertakenWritesSpoil.
EnvelopeNamesRow ==
    \A i \in DOMAIN clips :
        /\ clips[i].envelope.device = clips[i].device
        /\ clips[i].envelope.text = clips[i].hash.text

\* Re-encryption under way carries what it read: each item a newer envelope
\* and tag of one text, the text of its row while the row lives, under a
\* key the account has come to.
ItemsKnowTheirRow ==
    \A d \in Devices :
        /\ walk[d].target <= epoch
        /\ \A item \in walk[d].items :
              /\ item.from < item.hash.key
              /\ item.hash.key <= epoch
              /\ item.envelope.key = item.hash.key
              /\ item.envelope.text = item.hash.text
              /\ item.id \in used
              /\ item.id \in DOMAIN clips
                   => clips[item.id].hash.text = item.hash.text

KeyInv ==
    /\ TypeOK
    /\ EnvelopeNamesRow
    /\ KeysNeverRunAhead
    /\ BumpsKnowTheirRow
    /\ ItemsKnowTheirRow

LEMMA KeyInit == Init => KeyInv
  <1> SUFFICES ASSUME Init PROVE KeyInv  OBVIOUS
  <1>1. DOMAIN clips = {}  BY DEF Init
  <1> QED
    BY <1>1, TypeInit DEF Init, KeyInv, EnvelopeNamesRow, KeysNeverRunAhead,
       BumpsKnowTheirRow, ItemsKnowTheirRow, IdleWalk

\* A step after which the surviving rows hold the same texts under tags no
\* older, the rows that appear are nobody's business yet, and no request is
\* new, leaves the requests knowing their rows.
LEMMA RequestsKeepKnowing ==
    ASSUME TypeOK, TypeOK', BumpsKnowTheirRow, ItemsKnowTheirRow,
           epoch' >= epoch, used \subseteq used', bumps' \subseteq bumps,
           \A i \in DOMAIN clips' :
              \/ i \notin used
              \/ /\ i \in DOMAIN clips
                 /\ clips'[i].hash.text = clips[i].hash.text
                 /\ clips'[i].hash.key >= clips[i].hash.key
    PROVE  /\ BumpsKnowTheirRow'
           /\ walk' = walk => ItemsKnowTheirRow'
  <1> USE BoundsAssumption
  <1>1. /\ \A b \in bumps : b.post.key \in Nat
        /\ \A i \in DOMAIN clips : clips[i].hash.key \in Nat
        /\ \A i \in DOMAIN clips' : clips'[i].hash.key \in Nat
    BY DEF TypeOK, Bump, Post, Row, Tag, Epochs
  <1>2. BumpsKnowTheirRow'
    BY <1>1 DEF BumpsKnowTheirRow
  <1>3. ASSUME walk' = walk PROVE ItemsKnowTheirRow'
    <2>1. /\ epoch \in Nat /\ epoch' \in Nat
          /\ \A d \in Devices : walk[d].target \in Nat
          /\ \A d \in Devices : \A item \in walk[d].items : item.hash.key \in Nat
      BY DEF TypeOK, Walk, Item, Tag, Epochs
    <2> QED  BY <1>3, <2>1 DEF ItemsKnowTheirRow
  <1> QED  BY <1>2, <1>3

\* The first page of a walk carries nothing.
LEMMA FirstPageKnows ==
    ASSUME NEW e \in Epochs
    PROVE  /\ FirstPage(e).items = {} /\ FirstPage(e).target = e
           /\ IdleWalk.items = {} /\ IdleWalk.target = 0
  BY DEF FirstPage, IdleWalk

\* Nor does what follows a page, and it keeps the page's target or is over.
LEMMA NextPageKnows ==
    ASSUME NEW w \in Walk
    PROVE  NextPage(w).items = {} /\ NextPage(w).target \in {0, w.target}
  <1>1. w.target \in Epochs  BY DEF Walk
  <1>2. CASE w.next # NoCursor  BY <1>2 DEF NextPage, Walk
  <1>3. CASE w.next = NoCursor  BY <1>1, <1>3, FirstPageKnows DEF NextPage
  <1> QED  BY <1>2, <1>3

\* What a page of re-encryption writes: a row it touches was behind the
\* account's epoch, and gets the tag and envelope of an item made from it.
LEMMA WriteItemsWrites ==
    ASSUME KeyInv, NEW d \in Devices, WriteItems(d)
    PROVE  /\ DOMAIN clips' = DOMAIN clips
           /\ \A i \in DOMAIN clips :
                \/ clips'[i] = clips[i]
                \/ /\ clips[i].keyEpoch < epoch
                   /\ clips[i].keyEpoch < clips'[i].hash.key
                   /\ clips'[i].hash.key \in Nat
                   /\ clips'[i].hash.key <= epoch
                   /\ clips'[i].hash.text = clips[i].hash.text
                   /\ clips'[i].envelope.key = clips'[i].hash.key
                   /\ clips'[i].envelope.text = clips'[i].hash.text
                   /\ clips'[i].envelope.device = clips[i].device
                   /\ clips'[i].device = clips[i].device
                   /\ clips'[i].pinned = clips[i].pinned
                   /\ clips'[i].keyEpoch = epoch
                   /\ walk[d].server = epoch
                   /\ \E item \in walk[d].items :
                         item.id = i /\ item.envelope.key = clips'[i].hash.key
  <1> DEFINE w == walk[d]
             landing == {item \in w.items : Lands(item, w.server)}
             Sent(i) == CHOOSE item \in landing : item.id = i
  <1>1. clips' = [i \in DOMAIN clips |->
                     IF \E item \in landing : item.id = i
                     THEN Stamped(clips[i], Sent(i), w.server)
                     ELSE clips[i]]
    BY DEF WriteItems
  <1>2. \A item \in landing :
           /\ item.hash.key \in Nat
           /\ w.server = epoch
           /\ clips[item.id].keyEpoch < epoch
           /\ clips[item.id].keyEpoch < item.hash.key
           /\ item.hash.key <= epoch
           /\ item.envelope.key = item.hash.key
           /\ item.envelope.text = item.hash.text
           /\ item.envelope.device = clips[item.id].device
           /\ clips[item.id].hash.text = item.hash.text
    <2>1. \A item \in w.items : item.hash.key \in Nat
      BY BoundsAssumption DEF KeyInv, TypeOK, Walk, Item, Tag, Epochs
    <2> QED  BY <2>1 DEF Lands, KeyInv, ItemsKnowTheirRow
  <1>3. \A row \in Row : \A item : /\ Stamped(row, item, epoch).hash = item.hash
                               /\ Stamped(row, item, epoch).envelope = item.envelope
                               /\ Stamped(row, item, epoch).keyEpoch = epoch
                               /\ Stamped(row, item, epoch).device = row.device
                               /\ Stamped(row, item, epoch).pinned = row.pinned
    BY DEF Stamped, Row
  <1>4. \A i \in DOMAIN clips : clips[i] \in Row  BY DEF KeyInv, TypeOK
  <1>7. landing \subseteq walk[d].items /\ w = walk[d]  OBVIOUS
  <1> HIDE DEF landing, w
  <1>5. ASSUME NEW i \in DOMAIN clips, NEW item \in landing, item.id = i
        PROVE  /\ Sent(i) \in landing /\ Sent(i).id = i
               /\ clips'[i] = Stamped(clips[i], Sent(i), epoch)
    <2>1. Sent(i) \in landing /\ Sent(i).id = i  BY <1>5
    <2> HIDE DEF Sent
    <2> QED  BY <1>1, <1>2, <1>5, <2>1
  <1> HIDE DEF Sent
  <1>6. \A i \in DOMAIN clips : (~\E item \in landing : item.id = i)
                                 => clips'[i] = clips[i]
    BY <1>1
  <1> QED  BY <1>1, <1>2, <1>3, <1>4, <1>5, <1>6, <1>7

LEMMA KeyStep == KeyInv /\ [Next]_vars => KeyInv'
  <1> SUFFICES ASSUME KeyInv, [Next]_vars PROVE KeyInv'  OBVIOUS
  <1> DEFINE Rows == EnvelopeNamesRow /\ KeysNeverRunAhead
             Requests == BumpsKnowTheirRow /\ ItemsKnowTheirRow
  <1> USE BoundsAssumption
  <1>t. TypeOK /\ TypeOK'  BY TypeStep DEF KeyInv
  <1>n. /\ epoch \in Nat /\ epoch' \in Nat
        /\ \A i \in DOMAIN clips : /\ clips[i].hash.key \in Nat
                                   /\ clips[i].envelope.key \in Nat
                                   /\ clips[i].keyEpoch \in Nat
    BY <1>t DEF TypeOK, Row, Tag, Envelope, Epochs
  <1>r. Rows /\ Requests  BY DEF KeyInv
  <1>1. ASSUME UNCHANGED <<epoch, clips, used, bumps, walk>> PROVE KeyInv'
    BY <1>1, <1>t, <1>r DEF KeyInv, EnvelopeNamesRow, KeysNeverRunAhead,
                            BumpsKnowTheirRow, ItemsKnowTheirRow
  <1>2. ASSUME NEW d \in Devices, InsertClip(d) PROVE KeyInv'
    <2> PICK p \in posts, i \in ClipIds \ used :
              /\ MayInsert(p)
              /\ clips' = [j \in DOMAIN clips \cup {i} |->
                              IF j = i THEN Fresh(p) ELSE clips[j]]
      BY <1>2 DEF InsertClip
    <2>1. p.key = epoch  BY DEF MayInsert
    <2>2. UNCHANGED <<epoch, bumps, walk>> /\ used \subseteq used'
      BY <1>2 DEF InsertClip
    <2>3. DOMAIN clips \subseteq used  BY <1>t DEF TypeOK
    <2>4. Rows'
      BY <1>n, <1>r, <2>1, <2>2, <2>3
      DEF EnvelopeNamesRow, KeysNeverRunAhead, Fresh, TagOf, EnvelopeOf
    <2>5. \A j \in DOMAIN clips' :
             j \notin used \/ (j \in DOMAIN clips /\ clips'[j] = clips[j])
      BY <2>3
    <2>6. Requests'
      BY <1>n, <1>r, <1>t, <2>2, <2>5, RequestsKeepKnowing
    <2> QED  BY <1>t, <2>4, <2>6 DEF KeyInv
  <1>3. ASSUME NEW d \in Devices, FindStored(d) PROVE KeyInv'
    <2> PICK p \in posts, i \in DOMAIN clips :
              /\ i \in Newest(RowsHolding(TagOf(p)))
              /\ bumps' \subseteq bumps \cup {[post |-> p, id |-> i,
                                              pinned |-> clips[i].pinned,
                                              expires |-> clips[i].expires]}
      BY <1>3 DEF FindStored, Newest, RowsHolding
    <2>1. clips[i].hash = TagOf(p)
      BY DEF Newest, RowsHolding
    <2>2. UNCHANGED <<epoch, clips, used, walk>>  BY <1>3 DEF FindStored
    <2>3. BumpsKnowTheirRow'
      BY <1>n, <1>r, <1>t, <2>1, <2>2 DEF BumpsKnowTheirRow, TagOf, TypeOK
    <2> QED
      BY <1>t, <1>r, <2>2, <2>3
      DEF KeyInv, EnvelopeNamesRow, KeysNeverRunAhead, ItemsKnowTheirRow
  <1>4. ASSUME NEW d \in Devices, MoveToTop(d) PROVE KeyInv'
    <2> PICK b \in bumps :
              /\ bumps' = bumps \ {b}
              /\ clips' = IF b.id \in DOMAIN clips
                          THEN [clips EXCEPT ![b.id] = Moved(@, b)]
                          ELSE clips
      BY <1>4 DEF MoveToTop
    <2>1. UNCHANGED <<epoch, used, walk>>  BY <1>4 DEF MoveToTop
    <2>2. \A row \in Row : /\ Moved(row, b).hash = row.hash
                           /\ Moved(row, b).keyEpoch = row.keyEpoch
                           /\ Moved(row, b).device = b.post.device
                           /\ Moved(row, b).envelope = EnvelopeOf(b.post)
      BY DEF Moved, Row
    <2>3. \A i \in DOMAIN clips : clips[i] \in Row  BY <1>t DEF TypeOK
    <2>4. DOMAIN clips' = DOMAIN clips
      OBVIOUS
    <2>5. \A i \in DOMAIN clips :
             /\ clips'[i].hash = clips[i].hash
             /\ clips'[i].keyEpoch = clips[i].keyEpoch
             /\ \/ clips'[i] = clips[i]
                \/ /\ i = b.id
                   /\ clips'[i].device = b.post.device
                   /\ clips'[i].envelope = EnvelopeOf(b.post)
      BY <2>2, <2>3
    <2>6. Rows'
      <3>1. ASSUME NEW i \in DOMAIN clips
            PROVE  /\ clips'[i].envelope.device = clips'[i].device
                   /\ clips'[i].envelope.text = clips'[i].hash.text
                   /\ clips'[i].envelope.key <= clips'[i].hash.key
        <4>1. CASE clips'[i] = clips[i]
          BY <4>1, <1>r DEF EnvelopeNamesRow, KeysNeverRunAhead
        <4>2. CASE clips'[i] # clips[i]
          BY <4>2, <2>5, <1>r DEF BumpsKnowTheirRow, EnvelopeOf
        <4> QED  BY <4>1, <4>2
      <3> QED
        BY <3>1, <2>1, <2>4, <2>5, <1>r DEF EnvelopeNamesRow, KeysNeverRunAhead
    <2>7. Requests'
      BY <1>n, <1>r, <1>t, <2>1, <2>4, <2>5, RequestsKeepKnowing DEF TypeOK
    <2> QED  BY <1>t, <2>6, <2>7 DEF KeyInv
  <1>5. ASSUME NEW S, clips' = Without(S),
               UNCHANGED <<epoch, used, bumps, walk>>
        PROVE  KeyInv'
    <2>1. \A i \in DOMAIN clips' : i \in DOMAIN clips /\ clips'[i] = clips[i]
      BY <1>5 DEF Without
    <2>2. Rows'
      BY <1>5, <1>r, <2>1 DEF EnvelopeNamesRow, KeysNeverRunAhead
    <2>3. Requests'
      BY <1>5, <1>n, <1>r, <1>t, <2>1, RequestsKeepKnowing
    <2> QED  BY <1>t, <2>2, <2>3 DEF KeyInv
  <1>6. ASSUME NEW i \in ClipIds, PinClip(i) \/ UnpinClip(i) PROVE KeyInv'
    <2>1. UNCHANGED <<epoch, used, bumps, walk>>  BY <1>6 DEF PinClip, UnpinClip
    <2>2. \A j \in DOMAIN clips' :
             /\ j \in DOMAIN clips
             /\ clips'[j].hash = clips[j].hash
             /\ clips'[j].envelope = clips[j].envelope
             /\ clips'[j].keyEpoch = clips[j].keyEpoch
             /\ clips'[j].device = clips[j].device
      BY <1>6, <1>t DEF PinClip, UnpinClip, TypeOK, Row
    <2>3. Rows'
      BY <1>r, <2>1, <2>2 DEF EnvelopeNamesRow, KeysNeverRunAhead
    <2>4. Requests'
      BY <1>n, <1>r, <1>t, <2>1, <2>2, RequestsKeepKnowing
    <2> QED  BY <1>t, <2>3, <2>4 DEF KeyInv
  <1>7. ASSUME NEW d \in Devices, Rotate(d) \/ Finish(d) PROVE KeyInv'
    <2>1. /\ UNCHANGED <<clips, used, bumps>>
          /\ epoch' >= epoch
          /\ walk' = [walk EXCEPT ![d] = FirstPage(epoch')]
      BY <1>7, <1>n DEF Rotate, Finish
    <2>2. Rows'
      BY <2>1, <1>n, <1>r DEF EnvelopeNamesRow, KeysNeverRunAhead
    <2>3. BumpsKnowTheirRow'
      BY <2>1, <1>r DEF BumpsKnowTheirRow
    <2>4. FirstPage(epoch').items = {} /\ FirstPage(epoch').target = epoch'
      BY <1>t, FirstPageKnows DEF TypeOK
    <2>5. /\ \A e \in Devices : walk[e].target \in Nat
          /\ \A e \in Devices : \A item \in walk[e].items : item.hash.key \in Nat
      BY <1>t DEF TypeOK, Walk, Item, Tag, Epochs
    <2>6. \A e \in Devices : walk'[e] = walk[e] \/ walk'[e] = FirstPage(epoch')
      BY <2>1, <1>t DEF TypeOK
    <2>7. ItemsKnowTheirRow'
      BY <2>1, <2>4, <2>5, <2>6, <1>n, <1>r DEF ItemsKnowTheirRow
    <2> QED  BY <1>t, <2>2, <2>3, <2>7 DEF KeyInv
  <1>8. ASSUME NEW d \in Devices, ListPage(d) PROVE KeyInv'
    <2> DEFINE w == walk[d]
               opened == {i \in PageOf(Behind(w)) : Opens(d, i)}
               sealed == {Reseal(i, w.target) : i \in opened}
               Read(next) == [w EXCEPT !.pc = "send", !.next = next, !.items = sealed]
    <2>1. UNCHANGED <<epoch, clips, used, bumps>>  BY <1>8 DEF ListPage
    <2>2. PICK next \in NextCursors(Behind(w)) :
             walk' = [walk EXCEPT ![d] = IF opened = {} THEN NextPage(Read(next))
                                         ELSE Read(next)]
      BY <1>8 DEF ListPage
    <2>3. w \in Walk /\ w.target \in Nat /\ w.target <= epoch
      BY <1>t, <1>r DEF TypeOK, Walk, Epochs, ItemsKnowTheirRow
    <2>4. opened \subseteq DOMAIN clips  BY DEF PageOf, Behind
    <2>5. next \in Cursor
      BY <1>t, NextCursorsType DEF Behind
    <2>6. sealed \subseteq Item
      BY <1>t, <2>3, <2>4, ResealType DEF Walk
    <2>7. Read(next) \in Walk  BY <2>3, <2>5, <2>6 DEF Walk
    <2>8. Read(next).items = sealed /\ Read(next).target = w.target
      BY <2>3 DEF Walk
    <2>9. walk'[d].target <= epoch /\ walk'[d].items \subseteq sealed
      <3> HIDE DEF Read, sealed, opened
      <3>1. walk'[d] \in {Read(next), NextPage(Read(next))}
        BY <2>2, <1>t DEF TypeOK
      <3> HIDE DEF w
      <3>2. CASE walk'[d] = Read(next)  BY <2>3, <2>8, <3>2
      <3>3. CASE walk'[d] = NextPage(Read(next))
        BY <1>n, <2>3, <2>7, <2>8, <3>3, NextPageKnows
      <3> QED  BY <3>1, <3>2, <3>3
    <2>10. \A item \in sealed :
              /\ item.from < item.hash.key
              /\ item.hash.key <= epoch
              /\ item.envelope.key = item.hash.key
              /\ item.envelope.text = item.hash.text
              /\ item.id \in used
              /\ item.id \in DOMAIN clips
                   => clips[item.id].hash.text = item.hash.text
      <3>1. ASSUME NEW i \in opened
            PROVE  /\ clips[i].keyEpoch < w.target
                   /\ clips[i].envelope.text = clips[i].hash.text
                   /\ i \in used
        BY <1>r, <1>t, <2>4 DEF Behind, PageOf, EnvelopeNamesRow, TypeOK
      <3> HIDE DEF opened, w
      <3> QED  BY <1>n, <2>3, <3>1 DEF Reseal
    <2>11. \A e \in Devices : e # d => walk'[e] = walk[e]
      BY <2>2, <1>t DEF TypeOK
    <2>12. ItemsKnowTheirRow'
      <3> HIDE DEF sealed
      <3> QED  BY <1>r, <2>1, <2>9, <2>10, <2>11 DEF ItemsKnowTheirRow
    <2> QED
      BY <1>t, <1>r, <2>1, <2>12
      DEF KeyInv, EnvelopeNamesRow, KeysNeverRunAhead, BumpsKnowTheirRow
  <1>9. ASSUME NEW d \in Devices, ReadEpoch(d) PROVE KeyInv'
    <2>1. UNCHANGED <<epoch, clips, used, bumps>>  BY <1>9 DEF ReadEpoch
    <2>2. \A e \in Devices : /\ walk'[e].target = walk[e].target
                             /\ walk'[e].items = walk[e].items
      BY <1>9, <1>t DEF ReadEpoch, TypeOK, Walk
    <2> QED
      BY <1>t, <1>r, <2>1, <2>2
      DEF KeyInv, EnvelopeNamesRow, KeysNeverRunAhead, BumpsKnowTheirRow,
          ItemsKnowTheirRow
  <1>10. ASSUME NEW d \in Devices, WriteItems(d) PROVE KeyInv'
    <2>1. UNCHANGED <<epoch, used, bumps>>  BY <1>10 DEF WriteItems
    <2>2. PICK moved \in BOOLEAN :
             walk' = [walk EXCEPT ![d] = NextPage([walk[d] EXCEPT !.moved = moved])]
      BY <1>10, <1>t DEF WriteItems, TypeOK, Walk
    <2> DEFINE after == [walk[d] EXCEPT !.moved = moved]
    <2>3. DOMAIN clips' = DOMAIN clips  BY <1>10, WriteItemsWrites
    <2>4. ASSUME NEW i \in DOMAIN clips
           PROVE  /\ clips'[i].envelope.device = clips'[i].device
                  /\ clips'[i].envelope.text = clips'[i].hash.text
                  /\ clips'[i].envelope.key <= clips'[i].hash.key
                  /\ clips'[i].hash.key <= clips'[i].keyEpoch
                  /\ clips'[i].keyEpoch <= epoch
                  /\ clips'[i].hash.text = clips[i].hash.text
                  /\ clips'[i].hash.key >= clips[i].hash.key
      <3>1. CASE clips'[i] = clips[i]
        BY <1>n, <1>r, <3>1 DEF EnvelopeNamesRow, KeysNeverRunAhead
      <3>2. CASE clips'[i] # clips[i]
        BY <1>10, <1>n, <1>r, <3>2, WriteItemsWrites
        DEF EnvelopeNamesRow, KeysNeverRunAhead
      <3> QED  BY <3>1, <3>2
    <2>5. Rows'
      BY <2>1, <2>3, <2>4 DEF EnvelopeNamesRow, KeysNeverRunAhead
    <2>6. BumpsKnowTheirRow'
      BY <1>n, <1>r, <1>t, <2>1, <2>3, <2>4, RequestsKeepKnowing
    <2>7. /\ after \in Walk /\ after.target = walk[d].target
          /\ walk[d].target \in Nat /\ walk[d].target <= epoch
      BY <1>t, <1>r DEF TypeOK, Walk, Epochs, ItemsKnowTheirRow
    <2>8. walk'[d].items = {} /\ walk'[d].target <= epoch
      <3>1. walk'[d] = NextPage(after)  BY <2>2, <1>t DEF TypeOK
      <3> HIDE DEF after
      <3> QED  BY <1>n, <2>7, <3>1, NextPageKnows
    <2>9. \A e \in Devices : e # d => walk'[e] = walk[e]
      BY <2>2, <1>t DEF TypeOK
    <2>10. ItemsKnowTheirRow'
      BY <1>r, <2>1, <2>3, <2>4, <2>8, <2>9 DEF ItemsKnowTheirRow
    <2> QED  BY <1>t, <2>5, <2>6, <2>10 DEF KeyInv
  <1>11. CASE PurgeExpired \/ (\E i \in ClipIds : DeleteClip(i))
    BY <1>5, <1>11 DEF PurgeExpired, DeleteClip
  <1>12. ASSUME NEW d \in Devices,
                \/ \E t \in Texts : Copy(d, t)
                \/ Retry(d) \/ RefuseStale(d) \/ Refresh(d)
         PROVE  KeyInv'
    BY <1>1, <1>12 DEF Copy, Retry, RefuseStale, Refresh
  <1>13. CASE Tick \/ UNCHANGED vars
    BY <1>1, <1>13 DEF Tick, vars
  <1> HIDE DEF Rows, Requests
  <1> QED
    BY <1>2, <1>3, <1>4, <1>6, <1>7, <1>8, <1>9, <1>10, <1>11, <1>12, <1>13
    DEF Next, ServePost, WalkStep

THEOREM KeyInvCorrect == Spec => []KeyInv
  BY KeyInit, KeyStep, PTL DEF Spec

-----------------------------------------------------------------------------
(* Who makes a row unreadable.                                             *)

\* A step that touches none of a row's fields that readers check leaves it
\* as readable as it was.
LEMMA ReadableKept ==
    ASSUME NEW row \in Row, NEW after \in Row,
           after.envelope = row.envelope, after.hash = row.hash,
           after.keyEpoch = row.keyEpoch, after.device = row.device
    PROVE  Readable(after) = Readable(row)
  BY DEF Readable

\* A bump leaves a readable row readable unless the row has moved to a newer
\* key since the bump read it.
LEMMA MovedReadable ==
    ASSUME KeyInv, NEW b \in bumps, b.id \in DOMAIN clips, Readable(clips[b.id])
    PROVE  Readable(Moved(clips[b.id], b)) \/ b.post.key < clips[b.id].keyEpoch
  <1> DEFINE row == clips[b.id]
  <1>1. row \in Row /\ b \in Bump /\ b.post \in Post  BY DEF KeyInv, TypeOK, Bump
  <1>2. row.keyEpoch \in Nat /\ b.post.key \in Nat
    BY <1>1, BoundsAssumption DEF Row, Post, Epochs
  <1>3. /\ row.hash.text = b.post.text
        /\ b.post.key <= row.keyEpoch
        /\ row.hash = [text |-> row.hash.text, key |-> row.keyEpoch]
    BY DEF KeyInv, BumpsKnowTheirRow, Readable
  <1>4. /\ Moved(row, b).hash = row.hash
        /\ Moved(row, b).keyEpoch = row.keyEpoch
        /\ Moved(row, b).device = b.post.device
        /\ Moved(row, b).envelope = EnvelopeOf(b.post)
    BY <1>1 DEF Moved, Row
  <1>5. ASSUME b.post.key = row.keyEpoch PROVE Readable(Moved(row, b))
    <2>1. EnvelopeOf(b.post).key = row.keyEpoch
          /\ EnvelopeOf(b.post).device = b.post.device
          /\ EnvelopeOf(b.post).text = row.hash.text
      BY <1>3, <1>5 DEF EnvelopeOf
    <2> QED  BY <1>3, <1>4, <2>1 DEF Readable
  <1> QED  BY <1>2, <1>3, <1>5

LEMMA SpoilStep ==
    ASSUME KeyInv, [Next]_vars, NEW i \in DOMAIN clips',
           ~BumpOvertaken(i), ~PageOvertaken(i),
           i \in DOMAIN clips => Readable(clips[i])
    PROVE  Readable(clips'[i])
  <1> USE DEF TypeOK
  <1>t. TypeOK /\ TypeOK'  BY TypeStep DEF KeyInv
  <1>r. /\ i \in DOMAIN clips => clips[i] \in Row
        /\ clips'[i] \in Row
    BY <1>t
  <1>1. ASSUME clips' = clips PROVE Readable(clips'[i])  BY <1>1
  <1>2. ASSUME NEW d \in Devices,
               \/ \E t \in Texts : Copy(d, t)
               \/ Retry(d) \/ RefuseStale(d) \/ FindStored(d) \/ Refresh(d)
               \/ Rotate(d) \/ Finish(d) \/ ListPage(d) \/ ReadEpoch(d)
        PROVE  Readable(clips'[i])
    BY <1>1, <1>2 DEF Copy, Retry, RefuseStale, FindStored, Refresh, Rotate,
                      Finish, ListPage, ReadEpoch
  <1>3. ASSUME NEW d \in Devices, InsertClip(d) PROVE Readable(clips'[i])
    <2> PICK p \in posts, j \in ClipIds \ used :
              /\ MayInsert(p)
              /\ clips' = [k \in DOMAIN clips \cup {j} |->
                              IF k = j THEN Fresh(p) ELSE clips[k]]
      BY <1>3 DEF InsertClip
    <2>1. CASE i = j
      BY <2>1 DEF Readable, Fresh, TagOf, EnvelopeOf
    <2>2. CASE i # j
      BY <2>2
    <2> QED  BY <2>1, <2>2
  <1>4. ASSUME NEW d \in Devices, MoveToTop(d) PROVE Readable(clips'[i])
    <2> PICK b \in bumps :
              /\ bumps' = bumps \ {b}
              /\ clips' = IF b.id \in DOMAIN clips
                          THEN [clips EXCEPT ![b.id] = Moved(@, b)]
                          ELSE clips
      BY <1>4 DEF MoveToTop
    <2>1. i \in DOMAIN clips  OBVIOUS
    <2>2. CASE i = b.id
      <3>1. clips'[i] = Moved(clips[i], b)  BY <2>1, <2>2
      <3>2. ~(b.post.key < clips[i].keyEpoch)  BY <2>2 DEF BumpOvertaken
      <3> QED  BY <2>1, <2>2, <3>1, <3>2, MovedReadable
    <2>3. CASE i # b.id
      BY <2>1, <2>3
    <2> QED  BY <2>2, <2>3
  <1>5. ASSUME NEW d \in Devices, WriteItems(d) PROVE Readable(clips'[i])
    <2>1. i \in DOMAIN clips  BY <1>5, WriteItemsWrites
    <2>2. CASE clips'[i] = clips[i]  BY <2>1, <2>2
    <2>3. CASE clips'[i] # clips[i]
      <3>1. /\ walk[d].server = epoch
            /\ clips'[i].hash.key \in Nat /\ clips'[i].hash.key <= epoch
            /\ clips'[i].keyEpoch = epoch
            /\ clips'[i].envelope.key = clips'[i].hash.key
            /\ clips'[i].envelope.text = clips'[i].hash.text
            /\ clips'[i].envelope.device = clips'[i].device
        BY <1>5, <2>1, <2>3, WriteItemsWrites DEF KeyInv, EnvelopeNamesRow
      <3>2. PICK item \in walk[d].items :
                    item.id = i /\ item.envelope.key = clips'[i].hash.key
        BY <1>5, <2>1, <2>3, WriteItemsWrites
      <3>3. walk[d].pc = "write" /\ walk'[d] # walk[d]
        <4>1. PICK moved \in BOOLEAN :
                 walk' = [walk EXCEPT ![d] = NextPage([walk[d] EXCEPT !.moved = moved])]
          BY <1>5, <1>t DEF WriteItems, Walk
        <4>w. walk[d] \in Walk  BY <1>t
        <4>2. [walk[d] EXCEPT !.moved = moved] \in Walk  BY <4>w DEF Walk
        <4>3. walk'[d].items = {}  BY <4>1, <4>2, <1>t, NextPageKnows
        <4> QED  BY <1>5, <3>2, <4>3 DEF WriteItems
      <3>4. ~(item.envelope.key < epoch)
        BY <3>1, <3>2, <3>3 DEF PageOvertaken
      <3>5. epoch \in Nat  BY <1>t, BoundsAssumption DEF Epochs
      <3>6. clips'[i].hash.key = epoch  BY <3>1, <3>2, <3>4, <3>5
      <3>7. clips'[i].hash = [text |-> clips'[i].hash.text, key |-> clips'[i].hash.key]
        BY <1>r DEF Row, Tag
      <3> QED  BY <3>1, <3>6, <3>7 DEF Readable
    <2> QED  BY <2>2, <2>3
  <1>6. ASSUME NEW j \in ClipIds, DeleteClip(j) PROVE Readable(clips'[i])
    BY <1>6 DEF DeleteClip, Without
  <1>7. ASSUME NEW j \in ClipIds, PinClip(j) \/ UnpinClip(j) PROVE Readable(clips'[i])
    <2>1. i \in DOMAIN clips  BY <1>7 DEF PinClip, UnpinClip
    <2>2. /\ clips'[i].envelope = clips[i].envelope
          /\ clips'[i].hash = clips[i].hash
          /\ clips'[i].keyEpoch = clips[i].keyEpoch
          /\ clips'[i].device = clips[i].device
      BY <1>7, <1>r, <2>1 DEF PinClip, UnpinClip, Row
    <2> QED  BY <1>r, <2>1, <2>2, ReadableKept
  <1>8. CASE PurgeExpired
    BY <1>8 DEF PurgeExpired, Without
  <1>9. CASE Tick \/ UNCHANGED vars
    BY <1>1, <1>9 DEF Tick, vars
  <1> QED
    BY <1>2, <1>3, <1>4, <1>5, <1>6, <1>7, <1>8, <1>9 DEF Next, ServePost, WalkStep

\* Two orders of steps spoil a row for its readers, and no other does: a bump
\* over a row re-encrypted since it was read, and a page overtaken by a
\* second re-key.
THEOREM OnlyOvertakenWritesSpoilCorrect == Spec => OnlyOvertakenWritesSpoil
  <1>1. KeyInv /\ [Next]_vars
          => [\A i \in DOMAIN clips' :
                 \/ Readable(clips'[i])
                 \/ i \in DOMAIN clips /\ ~Readable(clips[i])
                 \/ BumpOvertaken(i)
                 \/ PageOvertaken(i)]_vars
    BY SpoilStep
  <1> QED  BY <1>1, KeyInvCorrect, PTL DEF Spec, OnlyOvertakenWritesSpoil

\* No row's envelope, tag or epoch runs ahead of the next.
THEOREM KeysNeverRunAheadCorrect == Spec => []KeysNeverRunAhead
  BY KeyInvCorrect, PTL DEF KeyInv

-----------------------------------------------------------------------------
(* One row of a text for every key the account has had.  Counting rows is  *)
(* not enough: a re-key makes room for one more row of every text, and     *)
(* that room must not be taken twice.  It is taken once a row is tagged    *)
(* under the account's own key.                                            *)

UnderCurrentKey(t) == {i \in Copies(t) : clips[i].hash.key = epoch}

RoomPerKey ==
    \A t \in Texts :
        Cardinality(Copies(t)) <= IF UnderCurrentKey(t) = {} THEN epoch ELSE epoch + 1

\* The tag of a row that survives stays of one text, and once under the
\* account's key does not move.
LEMMA TagsSettle ==
    ASSUME KeyInv, [Next]_vars, NEW i \in DOMAIN clips \cap DOMAIN clips'
    PROVE  /\ clips'[i].hash.text = clips[i].hash.text
           /\ clips[i].hash.key = epoch => clips'[i].hash = clips[i].hash
  <1> USE DEF TypeOK
  <1>t. TypeOK  BY DEF KeyInv
  <1>1. ASSUME NEW d \in Devices, NEW t \in Texts, Copy(d, t)
        PROVE  clips' = clips
    BY <1>1 DEF Copy
  <1>2. ASSUME NEW d \in Devices,
               Retry(d) \/ RefuseStale(d) \/ FindStored(d) \/ Refresh(d)
                 \/ Rotate(d) \/ Finish(d) \/ ListPage(d) \/ ReadEpoch(d)
        PROVE  clips' = clips
    BY <1>2 DEF Retry, RefuseStale, FindStored, Refresh, Rotate, Finish,
                ListPage, ReadEpoch
  <1>3. ASSUME NEW d \in Devices, InsertClip(d)
        PROVE  clips'[i] = clips[i]
    BY <1>3, <1>t DEF InsertClip
  <1>4. ASSUME NEW d \in Devices, MoveToTop(d)
        PROVE  clips'[i].hash = clips[i].hash
    <2>1. \A row \in Row : \A b : Moved(row, b).hash = row.hash  BY DEF Moved, Row
    <2>2. clips[i] \in Row  BY <1>t
    <2> QED  BY <1>4, <2>1, <2>2 DEF MoveToTop
  <1>5. ASSUME NEW d \in Devices, WriteItems(d)
        PROVE  /\ clips'[i].hash.text = clips[i].hash.text
               /\ clips[i].hash.key = epoch => clips'[i].hash = clips[i].hash
    <2>1. clips[i].hash.key \in Nat /\ clips[i].keyEpoch \in Nat /\ epoch \in Nat
      BY <1>t, BoundsAssumption DEF Row, Tag, Epochs
    <2>2. clips[i].hash.key <= clips[i].keyEpoch  BY DEF KeyInv, KeysNeverRunAhead
    <2>3. CASE clips'[i] = clips[i]  BY <2>3
    <2>4. CASE clips'[i] # clips[i]  BY <1>5, <2>1, <2>2, <2>4, WriteItemsWrites
    <2> QED  BY <2>3, <2>4
  <1>6. ASSUME NEW j \in ClipIds, DeleteClip(j) \/ PinClip(j) \/ UnpinClip(j)
        PROVE  clips'[i].hash = clips[i].hash
    BY <1>6, <1>t DEF DeleteClip, PinClip, UnpinClip, Without, Row
  <1>7. CASE PurgeExpired \/ Tick \/ UNCHANGED vars
    BY <1>7 DEF PurgeExpired, Tick, vars, Without
  <1> QED
    BY <1>1, <1>2, <1>3, <1>4, <1>5, <1>6, <1>7 DEF Next, ServePost, WalkStep

\* The account's epoch moves by re-keys alone, one at a time, and a re-key
\* touches no row.
LEMMA EpochStep ==
    ASSUME [Next]_vars
    PROVE  epoch' = epoch \/ (epoch' = epoch + 1 /\ clips' = clips /\ used' = used)
  BY DEF Next, Copy, Retry, ServePost, RefuseStale, InsertClip, FindStored,
         MoveToTop, Refresh, Rotate, Finish, WalkStep, ListPage, ReadEpoch,
         WriteItems, DeleteClip, PinClip, UnpinClip, PurgeExpired, Tick, vars

\* There are finitely many rows.
LEMMA FinitelyManyRows ==
    ASSUME TypeOK, NEW S \in SUBSET DOMAIN clips
    PROVE  IsFiniteSet(S) /\ Cardinality(S) \in Nat
  <1>1. S \in SUBSET ClipIds  BY DEF TypeOK
  <1> QED  BY <1>1, ClipIdsAssumption, FS_Subset, FS_CardinalityType

LEMMA RoomInit == Init => RoomPerKey
  <1> SUFFICES ASSUME Init, NEW t \in Texts
               PROVE  /\ Cardinality(Copies(t)) = 0
                      /\ UnderCurrentKey(t) = {}
    BY DEF RoomPerKey, Init
  <1>1. Copies(t) = {}  BY DEF Init, Copies
  <1> QED  BY <1>1, FS_EmptySet DEF UnderCurrentKey

LEMMA RoomStep == KeyInv /\ RoomPerKey /\ [Next]_vars => RoomPerKey'
  <1> SUFFICES ASSUME KeyInv, RoomPerKey, [Next]_vars, NEW t \in Texts
               PROVE  Cardinality(Copies(t)') <=
                        IF UnderCurrentKey(t)' = {} THEN epoch' ELSE epoch' + 1
    BY DEF RoomPerKey
  <1>t. TypeOK /\ TypeOK'  BY TypeStep DEF KeyInv
  <1>n. epoch \in Nat /\ epoch' \in Nat
    BY <1>t, BoundsAssumption DEF TypeOK, Epochs
  <1>f. /\ IsFiniteSet(Copies(t)) /\ Cardinality(Copies(t)) \in Nat
        /\ Cardinality(Copies(t)') \in Nat
    <2>1. Copies(t) \subseteq ClipIds /\ Copies(t)' \subseteq ClipIds
      BY <1>t DEF Copies, TypeOK
    <2> QED  BY <2>1, ClipIdsAssumption, FS_Subset, FS_CardinalityType
  <1>r. Cardinality(Copies(t)) <= IF UnderCurrentKey(t) = {} THEN epoch ELSE epoch + 1
    BY DEF RoomPerKey
  <1>1. CASE RowAdded
    <2> PICK p \in posts, i \in ClipIds \ used :
              /\ MayInsert(p)
              /\ epoch' = epoch
              /\ clips' = [j \in DOMAIN clips \cup {i} |->
                              IF j = i THEN Fresh(p) ELSE clips[j]]
      BY <1>1 DEF RowAdded
    <2>1. i \notin DOMAIN clips /\ clips'[i].hash = [text |-> p.text, key |-> epoch]
      BY <1>t DEF TypeOK, MayInsert, Fresh, TagOf
    <2>2. CASE p.text = t
      <3>1. Copies(t)' = Copies(t) \cup {i} /\ i \notin Copies(t)
        BY <2>1, <2>2 DEF Copies
      <3>2. UnderCurrentKey(t) = {}
        <4>1. \A j \in UnderCurrentKey(t) : clips[j].hash = TagOf(p)
          BY <1>t, <2>2 DEF UnderCurrentKey, Copies, TagOf, MayInsert, TypeOK, Row, Tag
        <4> QED  BY <4>1 DEF MayInsert, RowsHolding, UnderCurrentKey, Copies
      <3>3. i \in UnderCurrentKey(t)'
        BY <2>1, <3>1 DEF UnderCurrentKey
      <3>4. Cardinality(Copies(t)') = Cardinality(Copies(t)) + 1
        BY <1>f, <3>1, FS_AddElement
      <3> QED  BY <1>f, <1>n, <1>r, <3>2, <3>3, <3>4
    <2>3. CASE p.text # t
      <3>1. Copies(t)' = Copies(t)  BY <2>1, <2>3 DEF Copies
      <3>2. UnderCurrentKey(t)' = UnderCurrentKey(t)
        BY <2>1, <3>1 DEF UnderCurrentKey, Copies
      <3> QED  BY <1>r, <3>1, <3>2
    <2> QED  BY <2>2, <2>3
  <1>2. CASE epoch' = epoch + 1 /\ clips' = clips
    <2>1. Copies(t)' = Copies(t)  BY <1>2 DEF Copies
    <2> QED  BY <1>2, <1>f, <1>n, <1>r, <2>1
  <1>3. CASE epoch' = epoch /\ DOMAIN clips' \subseteq DOMAIN clips
    <2>1. Copies(t)' \subseteq Copies(t)
      BY <1>3, TagsSettle DEF Copies
    <2>2. /\ Cardinality(Copies(t)') <= Cardinality(Copies(t))
          /\ Cardinality(Copies(t)') = Cardinality(Copies(t))
               => Copies(t)' = Copies(t)
      BY <1>f, <2>1, FS_Subset
    <2>3. CASE Copies(t)' = Copies(t)
      <3>1. UnderCurrentKey(t) \subseteq UnderCurrentKey(t)'
        BY <1>3, <2>3, TagsSettle DEF UnderCurrentKey, Copies
      <3> QED  BY <1>3, <1>f, <1>n, <1>r, <2>3, <3>1
    <2>4. CASE Copies(t)' # Copies(t)
      BY <1>3, <1>f, <1>n, <1>r, <2>2, <2>4
    <2> QED  BY <2>3, <2>4
  <1> QED  BY <1>1, <1>2, <1>3, OnlyCopiesAdd, EpochStep

\* A text is stored at most once per vault key the account has had.
THEOREM OneRowPerKeyCorrect == Spec => []OneRowPerKey
  <1>1. KeyInv /\ RoomPerKey => OneRowPerKey
    <2> SUFFICES ASSUME KeyInv, RoomPerKey, NEW t \in Texts
                 PROVE  Cardinality(Copies(t)) <= epoch + 1
      BY DEF OneRowPerKey
    <2>1. epoch \in Nat  BY BoundsAssumption DEF KeyInv, TypeOK, Epochs
    <2>2. Cardinality(Copies(t)) \in Nat
      BY FinitelyManyRows DEF KeyInv, Copies
    <2> QED  BY <2>1, <2>2 DEF RoomPerKey
  <1> QED  BY <1>1, KeyInvCorrect, RoomInit, RoomStep, PTL DEF Spec

-----------------------------------------------------------------------------
(* Pins.                                                                   *)

\* Pinning a clip takes one place under the cap; no other step pins one.
LEMMA PinStep == KeyInv /\ PinCap /\ [Next]_vars => PinCap'
  <1> SUFFICES ASSUME KeyInv, PinCap, [Next]_vars PROVE PinCap'  OBVIOUS
  <1> USE DEF TypeOK
  <1>t. TypeOK /\ TypeOK'  BY TypeStep DEF KeyInv
  <1>f. /\ IsFiniteSet(Pinned) /\ Cardinality(Pinned) \in Nat
        /\ IsFiniteSet(Pinned') /\ Cardinality(Pinned') \in Nat
    <2>1. Pinned \subseteq ClipIds /\ Pinned' \subseteq ClipIds
      BY <1>t DEF Pinned
    <2> QED  BY <2>1, ClipIdsAssumption, FS_Subset, FS_CardinalityType
  <1>1. ASSUME Pinned' \subseteq Pinned PROVE PinCap'
    BY <1>1, <1>f, FS_Subset, PinsAssumption DEF PinCap
  <1>2. ASSUME NEW d \in Devices,
               \/ \E t \in Texts : Copy(d, t)
               \/ Retry(d) \/ RefuseStale(d) \/ FindStored(d) \/ Refresh(d)
               \/ Rotate(d) \/ Finish(d) \/ ListPage(d) \/ ReadEpoch(d)
        PROVE  PinCap'
    <2>1. clips' = clips
      BY <1>2 DEF Copy, Retry, RefuseStale, FindStored, Refresh, Rotate, Finish,
                  ListPage, ReadEpoch
    <2> QED  BY <1>1, <2>1 DEF Pinned
  <1>3. ASSUME NEW d \in Devices, InsertClip(d) PROVE PinCap'
    <2>1. RowAdded  BY <1>3 DEF InsertClip, RowAdded
    <2> QED  BY <1>1, <2>1 DEF RowAdded, Pinned, Fresh
  <1>4. ASSUME NEW d \in Devices, MoveToTop(d) PROVE PinCap'
    <2>1. \A row \in Row : \A b : Moved(row, b).pinned = row.pinned  BY DEF Moved, Row
    <2>2. \A i \in DOMAIN clips : clips[i] \in Row  BY <1>t
    <2> QED  BY <1>1, <1>4, <2>1, <2>2 DEF MoveToTop, Pinned
  <1>5. ASSUME NEW d \in Devices, WriteItems(d) PROVE PinCap'
    BY <1>1, <1>5, WriteItemsWrites DEF Pinned
  <1>6. ASSUME NEW i \in ClipIds, DeleteClip(i) \/ UnpinClip(i) PROVE PinCap'
    <2>1. \A j \in DOMAIN clips' : j \in DOMAIN clips
                                   /\ (clips'[j].pinned => clips[j].pinned)
      BY <1>6, <1>t DEF DeleteClip, UnpinClip, Without, Row
    <2> QED  BY <1>1, <2>1 DEF Pinned
  <1>7. ASSUME NEW i \in ClipIds, PinClip(i) PROVE PinCap'
    <2>1. Pinned' = Pinned \cup {i}
      <3>1. \A j \in DOMAIN clips : clips'[j].pinned = (clips[j].pinned \/ j = i)
        BY <1>7, <1>t DEF PinClip, Row
      <3> QED  BY <1>7, <3>1 DEF PinClip, Pinned
    <2>2. CASE clips[i].pinned
      BY <1>1, <1>7, <2>1, <2>2 DEF PinClip, Pinned
    <2>3. CASE ~clips[i].pinned
      <3>1. i \notin Pinned /\ Cardinality(Pinned) < MaxPins
        BY <1>7, <2>3 DEF PinClip, MayPin, Pinned
      <3> QED
        BY <1>f, <2>1, <3>1, FS_AddElement, PinsAssumption DEF PinCap
    <2> QED  BY <2>2, <2>3
  <1>8. CASE PurgeExpired \/ Tick \/ UNCHANGED vars
    BY <1>1, <1>8 DEF PurgeExpired, Tick, vars, Without, Pinned
  <1> QED
    BY <1>2, <1>3, <1>4, <1>5, <1>6, <1>7, <1>8 DEF Next, ServePost, WalkStep

\* The plan's pin cap holds whoever pins and whatever is bumped meanwhile.
THEOREM PinCapCorrect == Spec => []PinCap
  <1>1. Init => PinCap
    <2> SUFFICES ASSUME Init PROVE PinCap  OBVIOUS
    <2>1. Pinned = {}  BY DEF Init, Pinned
    <2> QED  BY <2>1, FS_EmptySet, PinsAssumption DEF PinCap
  <1> QED  BY <1>1, PinStep, KeyInvCorrect, PTL DEF Spec

-----------------------------------------------------------------------------
(* The rows, read with their keys, are the history History.tla promises.   *)

LEMMA HistoryStep == KeyInv /\ [Next]_vars => [Account!Next]_(Account!historyVars)
  <1> SUFFICES ASSUME KeyInv, [Next]_vars
               PROVE  [Account!Next]_(Account!historyVars)
    OBVIOUS
  <1>t. TypeOK /\ TypeOK'  BY TypeStep DEF KeyInv
  <1>d. DOMAIN clips \subseteq used /\ used \subseteq ClipIds  BY <1>t DEF TypeOK
  <1>c. DOMAIN Contents = DOMAIN clips  BY DEF Contents
  <1>1. ASSUME RowAdded PROVE \E i \in ClipIds, t \in Texts : Account!Add(i, t)
    <2> PICK p \in posts, i \in ClipIds \ used :
              /\ MayInsert(p)
              /\ epoch' = epoch
              /\ used' = used \cup {i}
              /\ clips' = [j \in DOMAIN clips \cup {i} |->
                              IF j = i THEN Fresh(p) ELSE clips[j]]
      BY <1>1 DEF RowAdded
    <2>1. p.text \in Texts  BY <1>t DEF TypeOK, Post
    <2>2. Fresh(p).hash = [text |-> p.text, key |-> epoch]
      BY DEF Fresh, TagOf, MayInsert
    <2>3. i \notin DOMAIN Contents \cup Gone  BY <1>c, <1>d DEF Gone
    <2>4. \A j \in Recognised : Contents[j] # p.text
      <3>1. ASSUME NEW j \in Recognised, clips[j].hash.text = p.text
            PROVE  clips[j].hash = TagOf(p)
        BY <1>t, <3>1 DEF Recognised, TagOf, MayInsert, TypeOK, Row, Tag
      <3> QED  BY <3>1 DEF Recognised, Contents, MayInsert, RowsHolding
    <2>5. Contents' = [j \in DOMAIN Contents \cup {i} |->
                         IF j = i THEN p.text ELSE Contents[j]]
      BY <2>2, <1>d DEF Contents
    <2>6. Recognised' = Recognised \cup {i}
      BY <2>2, <1>d DEF Recognised
    <2>7. Gone' = Gone  BY <1>d DEF Gone
    <2>8. Account!Add(i, p.text)
      BY <2>3, <2>4, <2>5, <2>6, <2>7 DEF Account!Add
    <2> QED  BY <2>1, <2>8
  <1>2. ASSUME epoch' = epoch + 1, clips' = clips, used' = used
        PROVE  Account!Rekey
    <2>1. \A i \in DOMAIN clips : clips[i].hash.key < epoch + 1
      BY <1>t, BoundsAssumption
      DEF KeyInv, KeysNeverRunAhead, TypeOK, Row, Tag, Epochs
    <2>2. Recognised' = {}  BY <1>2, <2>1 DEF Recognised
    <2>3. Contents' = Contents /\ Gone' = Gone  BY <1>2 DEF Contents, Gone
    <2> QED  BY <2>2, <2>3 DEF Account!Rekey
  <1>3. ASSUME epoch' = epoch, DOMAIN clips' \subseteq DOMAIN clips, used' = used
        PROVE  Account!Next
    <2>1. CASE DOMAIN clips' = DOMAIN clips
      <3>1. Contents' = Contents /\ Gone' = Gone
        BY <1>3, <2>1, TagsSettle DEF Contents, Gone
      <3>2. Recognised \subseteq Recognised' /\ Recognised' \subseteq DOMAIN clips
        BY <1>3, <2>1, TagsSettle DEF Recognised
      <3> PICK S \in SUBSET ClipIds : S = Recognised'
        BY <1>d, <3>2
      <3>3. Account!Recognise(S)
        BY <1>c, <3>1, <3>2 DEF Account!Recognise
      <3> QED  BY <3>3 DEF Account!Next
    <2>2. CASE DOMAIN clips' # DOMAIN clips
      <3> PICK S \in SUBSET ClipIds : S = DOMAIN clips \ DOMAIN clips'
        BY <1>d
      <3>1. \A i \in DOMAIN clips' : clips'[i].hash = clips[i].hash
        BY <1>3, <2>2, OnlyDeletesShrink
      <3>2. Contents' = [i \in DOMAIN Contents \ S |-> Contents[i]]
        BY <1>3, <3>1 DEF Contents
      <3>3. Gone' = Gone \cup S  BY <1>3, <1>d DEF Gone
      <3>4. Recognised' = Recognised \ S  BY <1>3, <3>1 DEF Recognised
      <3>5. Account!Remove(S)
        BY <1>c, <3>2, <3>3, <3>4 DEF Account!Remove
      <3> QED  BY <3>5 DEF Account!Next
    <2> QED  BY <2>1, <2>2
  <1> QED  BY <1>1, <1>2, <1>3, OnlyCopiesAdd, EpochStep DEF Account!Next

\* Copying, deleting and expiring do to the history what they promise; a
\* re-key hides entries and re-encryption finds them; nothing else touches it.
THEOREM HistoryImplemented == Spec => ImplementsHistory
  <1>1. Init => Account!Init
    BY DEF Init, Account!Init, Contents, Gone, Recognised
  <1> QED
    BY <1>1, HistoryStep, KeyInvCorrect, PTL
    DEF Spec, ImplementsHistory, Account!Spec
==============================================================================
