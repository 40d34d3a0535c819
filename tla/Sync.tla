-------------------------------- MODULE Sync --------------------------------
(***************************************************************************)
(* The live socket of one account: tickets, the room that fans events out  *)
(* to the account's devices, and the browser's end of it                   *)
(* (apps/worker/src/routes/sync.ts and sync-room.ts, apps/server/src       *)
(* rooms.ts, packages/react/src/useSync.ts).                               *)
(*                                                                         *)
(* A connection is followed from both ends: `client` is what the browser's *)
(* socket is, `server` what the worker has made of it, `wire` what is on   *)
(* its way between.  Either end may be gone before the other knows.  The   *)
(* self-hosted room takes a socket in two steps, the Durable Object in     *)
(* one: here the first is a step that may be skipped.                      *)
(***************************************************************************)
EXTENDS Naturals, Sequences, FiniteSets
CONSTANTS
    Devices,        \* the account's devices, each with a client
    Conns, owner,   \* connections there may be at once, each of one device
    NoConn,
    MaxDrops,       \* bound: connections lost, requests failed or too slow, restarts
    MaxClips,       \* bound: clip events
    Revocable, Closable    \* devices that may be revoked; whose page may be closed

ASSUME ConnAssumption == owner \in [Conns -> Devices] /\ NoConn \notin Conns
ASSUME BoundAssumption ==
    /\ MaxDrops \in Nat /\ MaxClips \in Nat /\ IsFiniteSet(Conns) /\ IsFiniteSet(Devices)
    /\ Revocable \subseteq Devices /\ Closable \subseteq Devices

VARIABLES
    \* the worker and the room
    revoked,   \* devices with a revoked_at
    cut,       \* ... whose revocation has been answered
    late,      \* connections that were on their way into the room then (history)
    server,    \* connection |-> how far the worker has got with it
    expired,   \* tickets past their 30 seconds
    \* between
    wire,      \* connection |-> messages under way to the browser
    \* the browser
    client,    \* connection |-> the browser's socket
    conn,      \* device |-> the connection its hook goes by
    status,    \* useSync's status
    over,      \* clients that connect no more: revoked, or the page is closed
    seen,      \* useSync's connected
    drops, clips   \* drops and clip events so far (bounds)

room == <<revoked, cut, late, server, expired>>
page == <<client, conn, status, over, seen>>
bounds == <<drops, clips>>
vars == <<room, wire, page, bounds>>

Message == [t : {"ready", "connected", "disconnected", "clip", "revoked"}, who : SUBSET Devices]

\* What the room's list of sockets holds: one it has closed stays until its
\* close event.
InRoom(n) == server[n] \in {"joined", "closing"}
Present == {owner[n] : n \in {m \in Conns : InRoom(m)}}

\* A message to every socket that is open, but those of one device.  To one whose
\* browser is gone it is lost.
Sends(w, n, m) == IF client[n] = "closed" THEN w ELSE [w EXCEPT ![n] = Append(@, m)]
Fanout(m, except) ==
    [n \in Conns |-> IF server[n] = "joined" /\ owner[n] # except
                     THEN Sends(wire, n, m)[n] ELSE wire[n]]

-----------------------------------------------------------------------------
(* The browser connects.                                                   *)

\* connect, at first and when the timer fires: the ticket is asked for.
Connect(d, n) ==
    /\ d \notin over /\ conn[d] = NoConn
    /\ owner[n] = d /\ server[n] = "none" /\ client[n] = "none"
    /\ conn' = [conn EXCEPT ![d] = n]
    /\ server' = [server EXCEPT ![n] = "asked"]
    /\ status' = [status EXCEPT ![d] = "connecting"]
    /\ late' = late \ {n}
    /\ UNCHANGED <<revoked, cut, expired, wire, client, over, seen, bounds>>

\* requireDevice.  (What if a ticket were given for any token?)
ResolvesAny(d) == TRUE
Resolves(d) == d \notin revoked

\* POST /api/sync/ticket.  What had expired is dropped.
Issue(n) ==
    /\ server[n] = "asked"
    /\ server' = [m \in Conns |->
          IF m = n THEN (IF Resolves(owner[n]) THEN "ticket" ELSE "denied")
          ELSE IF server[m] = "ticket" /\ m \in expired THEN "no ticket" ELSE server[m]]
    /\ expired' = {m \in expired \ {n} : server'[m] = "ticket"}
    /\ UNCHANGED <<revoked, cut, late, wire, page, bounds>>

\* The hook lets go of a connection: offline, and a timer to the next.
Lets(n, st) ==
    LET d == owner[n] IN
    IF conn[d] = n
    THEN status' = [status EXCEPT ![d] = st] /\ conn' = [conn EXCEPT ![d] = NoConn]
    ELSE UNCHANGED <<status, conn>>

\* A ticket that comes after the page is closed still opens a socket.
Dial(n) ==
    /\ client[n] = "none" /\ server[n] \in {"ticket", "no ticket"}
    /\ client' = [client EXCEPT ![n] = "dialing"]
    /\ UNCHANGED <<room, wire, conn, status, over, seen, bounds>>

\* 401: the token no longer works.
Denied(n) ==
    LET d == owner[n] IN
    /\ server[n] = "denied"
    /\ server' = [server EXCEPT ![n] = "none"]
    /\ Lets(n, "revoked")
    /\ over' = over \cup {d}
    /\ UNCHANGED <<revoked, cut, late, expired, wire, client, seen, bounds>>

\* GET /api/sync/ws is three steps: the ticket is deleted, the device read ...
Claim(n) ==
    /\ client[n] # "none" /\ server[n] \in {"ticket", "no ticket"}
    /\ server' = [server EXCEPT ![n] =
          IF @ = "ticket" /\ n \notin expired THEN "claimed" ELSE "refused"]
    /\ expired' = expired \ {n}
    /\ UNCHANGED <<revoked, cut, late, wire, page, bounds>>

\* What if only the ticket were asked for?
TrustsTicket(d) == TRUE
MayEnter(d) == d \notin revoked

Check(n) ==
    /\ server[n] = "claimed"
    /\ server' = [server EXCEPT ![n] = IF MayEnter(owner[n]) THEN "checked" ELSE "refused"]
    /\ UNCHANGED <<revoked, cut, late, expired, wire, page, bounds>>

\* ... and the room takes it.  The self-hosted server's is parked until the
\* handshake is done, ten seconds at most.
Park(n) ==
    /\ server[n] = "checked"
    /\ server' = [server EXCEPT ![n] = "parked"]
    /\ UNCHANGED <<revoked, cut, late, expired, wire, page, bounds>>

ParkExpires(n) ==
    /\ server[n] = "parked" /\ drops < MaxDrops /\ drops' = drops + 1
    /\ server' = [server EXCEPT ![n] = "refused"]
    /\ UNCHANGED <<revoked, cut, late, expired, wire, page, clips>>

\* `ready` to the new one, `device.connected` to the others'.
Enters(n) ==
    LET d == owner[n]
        ready == [t |-> "ready", who |-> Present \ {d}] IN
    /\ server' = [server EXCEPT ![n] = "joined"]
    /\ wire' = Sends(Fanout([t |-> "connected", who |-> {d}], d), n, ready)
    /\ UNCHANGED <<revoked, cut, late, expired, page, bounds>>
Join(n) == server[n] = "checked" /\ Enters(n)
Accept(n) == server[n] = "parked" /\ Enters(n)

Opened(n) ==
    /\ client[n] = "dialing" /\ InRoom(n)
    /\ client' = [client EXCEPT ![n] = "open"]
    /\ status' = [d \in Devices |-> IF conn[d] = n THEN "online" ELSE status[d]]
    /\ UNCHANGED <<room, wire, conn, over, seen, bounds>>

-----------------------------------------------------------------------------
(* Messages.                                                               *)

\* What a message makes of the list of who is connected.
Heard(list, m) ==
    CASE m.t = "ready" -> m.who
      [] m.t = "connected" -> list \cup m.who
      [] m.t = "disconnected" -> list \ m.who
      [] OTHER -> list

\* onmessage; a closed page hears nothing.  `revoked` ends it for good.
Deliver(n) ==
    LET d == owner[n] m == Head(wire[n]) IN
    /\ client[n] = "open" /\ wire[n] # <<>>
    /\ IF conn[d] = n
       THEN /\ seen' = [seen EXCEPT ![d] = Heard(@, m)]
            /\ IF m.t = "revoked"
               THEN /\ status' = [status EXCEPT ![d] = "revoked"]
                    /\ over' = over \cup {d}
                    /\ conn' = [conn EXCEPT ![d] = NoConn]
                    /\ client' = [client EXCEPT ![n] = "closed"]
                    /\ wire' = [wire EXCEPT ![n] = <<>>]
               ELSE /\ wire' = [wire EXCEPT ![n] = Tail(@)]
                    /\ UNCHANGED <<status, over, conn, client>>
       ELSE wire' = [wire EXCEPT ![n] = Tail(@)] /\ UNCHANGED <<seen, status, over, conn, client>>
    /\ UNCHANGED <<room, bounds>>

\* A route tells the room of a change a device made.
Broadcast(d) ==
    /\ d \notin revoked /\ clips < MaxClips
    /\ clips' = clips + 1
    /\ wire' = Fanout([t |-> "clip", who |-> {d}], d)
    /\ UNCHANGED <<room, page, drops>>

-----------------------------------------------------------------------------
(* Connections end.                                                        *)

\* What if a departure were announced for every socket?
SomeoneLeaves(n) == FALSE
StillHere(n) == \E m \in Conns \ {n} : owner[m] = owner[n] /\ InRoom(m)

\* webSocketClose: the room learns that the other end is gone.
Leave(n) ==
    /\ InRoom(n) /\ client[n] = "closed"
    /\ server' = [server EXCEPT ![n] = "none"]
    /\ client' = [client EXCEPT ![n] = "none"]
    /\ wire' = IF StillHere(n) THEN wire
               ELSE Fanout([t |-> "disconnected", who |-> {owner[n]}], owner[n])
    /\ UNCHANGED <<revoked, cut, late, expired, conn, status, over, seen, bounds>>

\* A refused upgrade, or a socket the server has closed and sent all on:
\* onclose, with 4001 if the device is revoked.
Closed(n) ==
    LET d == owner[n] IN
    /\ client[n] \in {"dialing", "open"}
    /\ \/ server[n] = "refused"
       \/ server[n] = "closing" /\ client[n] = "open" /\ wire[n] = <<>>
    /\ IF server[n] = "closing" /\ conn[d] = n
       THEN Lets(n, "revoked") /\ over' = over \cup {d}
       ELSE Lets(n, "offline") /\ UNCHANGED over
    /\ client' = [client EXCEPT ![n] = IF server[n] = "refused" THEN "none" ELSE "closed"]
    /\ server' = [server EXCEPT ![n] = IF @ = "refused" THEN "none" ELSE @]
    /\ UNCHANGED <<revoked, cut, late, expired, wire, seen, bounds>>

\* The browser closed before the upgrade was refused.
Forgotten(n) ==
    /\ server[n] = "refused" /\ client[n] = "closed"
    /\ server' = [server EXCEPT ![n] = "none"]
    /\ client' = [client EXCEPT ![n] = "none"]
    /\ UNCHANGED <<revoked, cut, late, expired, wire, conn, status, over, seen, bounds>>

\* The network drops a connection, as the browser sees it; the ticket request
\* fails.
Drop(n) ==
    /\ drops < MaxDrops /\ drops' = drops + 1
    /\ \/ /\ client[n] \in {"dialing", "open"}
          /\ client' = [client EXCEPT ![n] = "closed"]
          /\ UNCHANGED server
       \/ /\ client[n] = "none" /\ server[n] \in {"asked", "ticket", "no ticket", "denied"}
          /\ server' = [server EXCEPT ![n] = "none"]
          /\ UNCHANGED client
    /\ wire' = [wire EXCEPT ![n] = <<>>]
    /\ expired' = {m \in expired : server'[m] = "ticket"}
    /\ Lets(n, "offline")
    /\ UNCHANGED <<revoked, cut, late, over, seen, clips>>

\* The server restarts: its sockets are gone, and the handles it parked.
Restart ==
    /\ drops < MaxDrops /\ drops' = drops + 1
    /\ server' = [n \in Conns |-> IF InRoom(n) \/ server[n] \in {"claimed", "checked", "parked"}
                                  THEN "refused" ELSE server[n]]
    /\ wire' = [n \in Conns |-> <<>>]
    /\ UNCHANGED <<revoked, cut, late, expired, page, clips>>

\* The page is closed: the hook's clean-up closes the socket it has.
Unmount(d) ==
    LET n == conn[d] IN
    /\ d \in Closable \ over
    /\ over' = over \cup {d}
    /\ conn' = [conn EXCEPT ![d] = NoConn]
    /\ IF n # NoConn /\ client[n] \in {"dialing", "open"}
       THEN client' = [client EXCEPT ![n] = "closed"] /\ wire' = [wire EXCEPT ![n] = <<>>]
       ELSE UNCHANGED <<client, wire>>
    /\ UNCHANGED <<room, status, seen, bounds>>

TicketExpires(n) ==
    /\ server[n] = "ticket" /\ n \notin expired
    /\ drops < MaxDrops /\ drops' = drops + 1
    /\ expired' = expired \cup {n}
    /\ UNCHANGED <<revoked, cut, late, server, wire, page, clips>>

\* DELETE /api/devices/:id: the row ...
Revoke(d) ==
    /\ d \in Revocable \ revoked
    /\ revoked' = revoked \cup {d}
    /\ UNCHANGED <<cut, late, server, expired, wire, page, bounds>>

\* ... then every socket of the device's that is in the room gets a `revoked`
\* frame and is closed, and the request is answered.  One that is between its check
\* and the room is not found.  (An error of the room, which the route logs and
\* forgets, is left out.)
Its(d) == {n \in Conns : owner[n] = d /\ server[n] = "joined"}
Cut(d) ==
    /\ d \in revoked \ cut
    /\ cut' = cut \cup {d}
    /\ late' = late \cup {n \in Conns : owner[n] = d /\ server[n] \in {"checked", "parked"}}
    /\ server' = [n \in Conns |-> IF n \in Its(d) THEN "closing" ELSE server[n]]
    /\ wire' = [n \in Conns |-> IF n \in Its(d)
                                THEN Sends(wire, n, [t |-> "revoked", who |-> {}])[n] ELSE wire[n]]
    /\ UNCHANGED <<revoked, expired, page, bounds>>

-----------------------------------------------------------------------------
Init ==
    /\ revoked = {} /\ cut = {} /\ late = {} /\ expired = {} /\ over = {}
    /\ server = [n \in Conns |-> "none"]
    /\ client = [n \in Conns |-> "none"]
    /\ wire = [n \in Conns |-> <<>>]
    /\ conn = [d \in Devices |-> NoConn]
    /\ status = [d \in Devices |-> "connecting"]
    /\ seen = [d \in Devices |-> {}]
    /\ drops = 0 /\ clips = 0

Connects(d) == \E n \in Conns : Connect(d, n)
Progress(n) ==
    \/ Issue(n) \/ Dial(n) \/ Denied(n) \/ Claim(n) \/ Check(n) \/ Join(n) \/ Accept(n) \/ Opened(n)
    \/ Deliver(n) \/ Leave(n) \/ Closed(n) \/ Forgotten(n)

Next ==
    \/ \E d \in Devices : Connects(d) \/ Broadcast(d) \/ Unmount(d) \/ Revoke(d) \/ Cut(d)
    \/ \E n \in Conns : Progress(n) \/ Park(n) \/ ParkExpires(n) \/ TicketExpires(n) \/ Drop(n)
    \/ Restart

\* Timers fire, requests are handled, what is on a live connection arrives, and
\* a connection that ended is noticed at the other end.
Fairness ==
    /\ \A d \in Devices : WF_vars(Connects(d)) /\ WF_vars(Cut(d))
    /\ \A n \in Conns : WF_vars(Progress(n))

Spec == Init /\ [][Next]_vars
FairSpec == Spec /\ Fairness

-----------------------------------------------------------------------------
\* Every variable has its type; the hook of a device holds a connection of its
\* own, and what is not in the room has nothing on its wire.
TypeOK ==
    /\ cut \subseteq revoked /\ revoked \subseteq Devices
    /\ late \subseteq Conns /\ expired \subseteq Conns /\ over \subseteq Devices
    /\ server \in [Conns -> {"none", "asked", "denied", "ticket", "no ticket", "claimed",
                             "checked", "parked", "refused", "joined", "closing"}]
    /\ client \in [Conns -> {"none", "dialing", "open", "closed"}]
    /\ wire \in [Conns -> Seq(Message)]
    /\ conn \in [Devices -> Conns \cup {NoConn}]
    /\ status \in [Devices -> {"connecting", "online", "offline", "revoked"}]
    /\ seen \in [Devices -> SUBSET Devices]
    /\ drops \in 0..MaxDrops /\ clips \in 0..MaxClips
    /\ \A d \in Devices : conn[d] # NoConn => owner[conn[d]] = d /\ d \notin over
    /\ \A n \in Conns : wire[n] # <<>> => InRoom(n)

\* What is said of a device last: in the messages under way, or before.
Tells(m, x) == m.t = "ready" \/ (m.t \in {"connected", "disconnected"} /\ x \in m.who)
Here(m, x) == m.t # "disconnected" /\ x \in m.who
WillShow(list, w) ==
    {x \in Devices :
       \/ x \in list /\ \A i \in 1..Len(w) : ~Tells(w[i], x)
       \/ \E i \in 1..Len(w) : /\ Tells(w[i], x) /\ Here(w[i], x)
                              /\ \A j \in (i + 1)..Len(w) : ~Tells(w[j], x)}

\* What a browser shows as connected, once it has read what is on its way, is
\* who has a socket in the room: however connections overlap ("a reconnecting
\* agent briefly holds two"), drop and are announced late.
PresenceConverges ==
    \A n \in Conns :
        server[n] = "joined" /\ client[n] \in {"dialing", "open"} /\ conn[owner[n]] = n
        => WillShow(seen[owner[n]], wire[n]) = Present \ {owner[n]}

\* Once its revocation is answered a device has no socket that hears a clip, but one
\* that had passed its check before the revocation and came into the room after it.
RevokedIsCutOff ==
    \A n \in Conns : owner[n] \in cut /\ server[n] = "joined" => n \in late

\* "'revoked' in the response means the device has actually been cut off"
\* (devices.ts), that one included.
CutOffWhenAnswered == \A n \in Conns : owner[n] \in cut => server[n] # "joined"

\* A browser whose device is revoked comes to say so, although the frame that
\* would tell it may be lost: it may be refused a ticket instead.  Only the socket
\* that came in late it may keep.  Any other gets back online once connections hold.
CameLate(d) == \E n \in late : owner[n] = d /\ server[n] = "joined"
RevokedLearns ==
    \A d \in Devices :
        /\ d \in revoked ~> d \in over \/ CameLate(d)
        /\ status[d] = "offline" ~> status[d] = "online" \/ d \in over
=============================================================================
