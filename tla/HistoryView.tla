----------------------------- MODULE HistoryView -----------------------------
(***************************************************************************)
(* The history as one screen shows it: the web app's workspace and the     *)
(* tray panel (packages/react/src/useClips.ts, apps/web/src/App.tsx and    *)
(* History.tsx, apps/desktop/src/App.tsx).                                 *)
(*                                                                         *)
(* The list is loaded in pages and kept current by the events of a socket. *)
(* Pages and events are fetched and decrypted asynchronously and applied   *)
(* in whatever order that ends, a page over everything shown before it.    *)
(* What the user does is shown at once and asked of the server after; a    *)
(* delete waits out its undo window first.                                 *)
(*                                                                         *)
(* A row is the time it was copied at, its pin and its key epoch; the list *)
(* is its set of clips, which the screen sorts.  The plan's cap on pins    *)
(* and a tab that is closed, or signed out, are left out.                  *)
(***************************************************************************)
EXTENDS Naturals, FiniteSets, FiniteSetsExt, TLC
CONSTANTS
    Clips,      \* ids, numbered from 1
    PageSize,   \* rows per page
    MaxEpoch,   \* bound: re-keys
    MaxWrites,  \* bound: what other devices do
    MaxActs,    \* bound: what the user does here
    MaxLoads,   \* bound: loads under way at once
    MaxFails    \* bound: requests and events lost, sockets dropped

None == 0
MaxTime == Cardinality(Clips) + MaxWrites
Epochs == 0..MaxEpoch

ASSUME ClipsAssumption == IsFiniteSet(Clips) /\ Clips = 1..Cardinality(Clips)
ASSUME BoundAssumption ==
    /\ PageSize \in Nat \ {0} /\ MaxEpoch \in Nat
    /\ MaxWrites \in Nat /\ MaxActs \in Nat /\ MaxLoads \in Nat \ {0} /\ MaxFails \in Nat

VARIABLES
    \* the server
    rows,      \* clip |-> its row
    fresh,     \* ids no clip has had
    time,      \* the clock
    epoch,     \* the account's key epoch
    \* the socket
    link,      \* whether it is open
    wire,      \* events on their way
    \* the screen
    here,      \* whether it is shown
    list,      \* clip |-> what is shown of it
    cursor,    \* where the next page begins
    loads,     \* pages being loaded
    decoding,  \* events being decrypted
    held,      \* the newest key it holds
    asking,    \* whether a newer one is being fetched
    \* the user
    pending,   \* the clip whose delete can be undone
    requests,  \* under way
    asked,     \* clips deleted here, and not undone nor settled (history)
    writes, acts, fails

server == <<rows, fresh, time, epoch>>
socket == <<link, wire>>
view == <<list, cursor, loads, decoding>>
keys == <<held, asking>>
user == <<pending, requests, asked>>
counts == <<writes, acts, fails>>
vars == <<server, socket, here, view, keys, user, counts>>

Row == [at : 1..MaxTime, pinned : BOOLEAN, epoch : Epochs]
Item == [at : 1..MaxTime, pinned : BOOLEAN, open : BOOLEAN]
\* readClip: what a row shows as, with the keys up to k.
Shown(r, k) == [at |-> r.at, pinned |-> r.pinned, open |-> r.epoch <= k]
Drop(f, c) == [x \in DOMAIN f \ {c} |-> f[x]]

Event(type, c, r) == [type |-> type, clip |-> c, row |-> r]
Rotated == Event("rotated", None, [at |-> 1, pinned |-> FALSE, epoch |-> 0])

Fails == fails < MaxFails /\ fails' = fails + 1
Writes == writes < MaxWrites /\ writes' = writes + 1 /\ UNCHANGED acts
Acts == acts < MaxActs /\ acts' = acts + 1 /\ UNCHANGED writes

-----------------------------------------------------------------------------
(* Loads.                                                                  *)

\* A list request: the newest PageSize rows before `before`.
Before(b) == {c \in DOMAIN rows : b = None \/ rows[c].at < b}
Page(b) == {c \in Before(b) :
              Cardinality({d \in Before(b) : rows[d].at > rows[c].at}) < PageSize}
Pins == {c \in DOMAIN rows : rows[c].pinned}
NextCursor(b) ==
    IF Page(b) = Before(b) THEN None ELSE Min({rows[c].at : c \in Page(b)})

\* A load is what came back, on its way to the list.  It is read when it is
\* asked for: one read later is one asked for later.  A first page comes with
\* every pin, which two requests side by side read: here, at one instant.  What
\* is read is decrypted with the keys of the moment.  One more than MaxLoads
\* fails.
Read(b) == Page(b) \cup (IF b = None THEN Pins ELSE {})
LoadFrom(b, k) ==
    loads' = loads \cup
        IF Cardinality(loads) = MaxLoads THEN {}
        ELSE {[before |-> b, next |-> NextCursor(b),
               page |-> [c \in Read(b) |-> Shown(rows[c], k)]]}
Load == LoadFrom(None, held)

\* What if a first page were added to what is shown, too?
MergedOver(l) == l.page @@ list
\* A first page replaces the list; a further one is added to it.
Merged(l) == IF l.before = None THEN l.page ELSE list @@ l.page

Loaded(l) ==
    /\ l \in loads
    /\ list' = Merged(l)
    /\ cursor' = l.next
    /\ loads' = loads \ {l}
    /\ UNCHANGED <<server, socket, here, decoding, keys, user, counts>>
LoadFails(l) ==
    /\ l \in loads /\ Fails
    /\ loads' = loads \ {l}
    /\ UNCHANGED <<server, socket, here, list, cursor, decoding, keys, user, writes, acts>>

\* "Refetch ... whenever the tab is looked at again".
Look ==
    /\ here /\ Load
    /\ UNCHANGED <<server, socket, here, list, cursor, decoding, keys, user, counts>>
LoadMore ==
    /\ here /\ cursor # None /\ Acts /\ LoadFrom(cursor, held)
    /\ UNCHANGED <<server, socket, here, list, cursor, decoding, keys, user, fails>>

-----------------------------------------------------------------------------
(* The socket.                                                             *)

\* ... "and whenever it comes back online".
Connect ==
    /\ here /\ ~link
    /\ link' = TRUE /\ Load
    /\ UNCHANGED <<server, wire, here, list, cursor, decoding, keys, user, counts>>
Disconnect ==
    /\ link /\ Fails
    /\ link' = FALSE /\ wire' = {}
    /\ UNCHANGED <<server, here, view, keys, user, writes, acts>>

\* Written first, then fanned out; nothing is kept for a socket that is down.
Publish(e) ==
    IF link
    THEN \/ wire' = wire \cup {e} /\ UNCHANGED <<link, fails>>
         \/ Fails /\ UNCHANGED socket
    ELSE UNCHANGED <<socket, fails>>

\* What other devices do.
Puts(c, type, r) ==
    /\ time' = time + 1
    /\ rows' = (c :> r) @@ rows
    /\ Publish(Event(type, c, r))
Create(c) ==
    /\ c \in fresh /\ Writes
    /\ fresh' = fresh \ {c}
    /\ Puts(c, "created", [at |-> time + 1, pinned |-> FALSE, epoch |-> epoch])
    /\ UNCHANGED <<epoch, here, view, keys, user>>
Bump(c) ==
    /\ c \in DOMAIN rows /\ rows[c].epoch = epoch /\ Writes
    /\ \E d \in DOMAIN rows : rows[d].at > rows[c].at
    /\ Puts(c, "bumped", [rows[c] EXCEPT !.at = time + 1])
    /\ UNCHANGED <<fresh, epoch, here, view, keys, user>>
Pin(c) ==
    /\ c \in DOMAIN rows /\ Writes
    /\ rows' = [rows EXCEPT ![c].pinned = ~@]
    /\ Publish(Event("pinned", c, rows'[c]))
    /\ UNCHANGED <<fresh, time, epoch, here, view, keys, user>>
Delete(c) ==
    /\ c \in DOMAIN rows /\ Writes
    /\ rows' = Drop(rows, c)
    /\ Publish(Event("deleted", c, rows[c]))
    /\ UNCHANGED <<fresh, time, epoch, here, view, keys, user>>
Rotate ==
    /\ epoch < MaxEpoch /\ Writes
    /\ epoch' = epoch + 1
    /\ Publish(Rotated)
    /\ UNCHANGED <<rows, fresh, time, here, view, keys, user>>
Reencrypt(c) ==
    /\ c \in DOMAIN rows /\ rows[c].epoch < epoch
    /\ rows' = [rows EXCEPT ![c].epoch = epoch]
    /\ UNCHANGED <<fresh, time, epoch, socket, here, view, keys, user, counts>>

\* applyEvent: a copy is decrypted first; the rest is applied at once.
Decodes(e) ==
    /\ decoding' = decoding \cup
                     {[type |-> e.type, clip |-> e.clip, item |-> Shown(e.row, held)]}
    /\ asking' = (asking \/ e.row.epoch > held)
    /\ UNCHANGED list
Applies(e) ==
    /\ list' = CASE e.type = "deleted" -> Drop(list, e.clip)
                 [] e.type = "pinned" /\ e.clip \in DOMAIN list ->
                      [list EXCEPT ![e.clip].pinned = e.row.pinned]
                 [] OTHER -> list
    /\ asking' = (asking \/ e = Rotated)
    /\ UNCHANGED decoding
Deliver(e) ==
    /\ e \in wire
    /\ wire' = wire \ {e}
    /\ IF e.type \in {"created", "bumped"} THEN Decodes(e) ELSE Applies(e)
    /\ UNCHANGED <<server, link, here, cursor, loads, held, user, counts>>

\* A new clip is added unless it is there; a bumped one takes its place.
Decoded(d) ==
    /\ d \in decoding
    /\ decoding' = decoding \ {d}
    /\ list' = IF d.type = "created" THEN list @@ (d.clip :> d.item)
                                     ELSE (d.clip :> d.item) @@ list
    /\ UNCHANGED <<server, socket, here, cursor, loads, keys, user, counts>>

\* refreshRing: the list is loaded again with a key that is new.
Refreshed ==
    /\ asking /\ asking' = FALSE
    /\ held' = epoch
    /\ IF here /\ held # epoch THEN LoadFrom(None, epoch) ELSE UNCHANGED loads
    /\ UNCHANGED <<server, socket, here, list, cursor, decoding, user, counts>>
RefreshFails ==
    /\ asking /\ asking' = FALSE /\ Fails
    /\ UNCHANGED <<server, socket, here, view, held, user, writes, acts>>

-----------------------------------------------------------------------------
(* The user.                                                               *)

Visible == DOMAIN list \ {pending}
Request(does, c) == [does |-> does, clip |-> c]

\* commit: what is pending is taken off the list and asked of the server.
Commits ==
    IF pending = None THEN UNCHANGED <<list, requests>>
    ELSE /\ list' = Drop(list, pending)
         /\ requests' = requests \cup {Request("delete", pending)}

\* What if a second delete took the first one's place?
RemoveInPlace(c) ==
    /\ here /\ c \in Visible /\ Acts
    /\ pending' = c /\ asked' = asked \cup {c}
    /\ UNCHANGED <<server, socket, here, view, keys, requests, fails>>

\* A delete is shown at once, and commits the one before it.
Remove(c) ==
    /\ here /\ c \in Visible /\ Acts
    /\ Commits
    /\ pending' = c /\ asked' = asked \cup {c}
    /\ UNCHANGED <<server, socket, here, cursor, loads, decoding, keys, fails>>
UndoTimeout ==
    /\ pending # None
    /\ Commits /\ pending' = None
    /\ UNCHANGED <<server, socket, here, cursor, loads, decoding, keys, asked, counts>>

\* Undone, unless the clip was deleted before and that has been asked already.
Undoes == asked' = IF Request("delete", pending) \in requests THEN asked ELSE asked \ {pending}
\* What if the timer were not told?
UndoShownOnly ==
    /\ pending # None /\ Undoes
    /\ UNCHANGED <<server, socket, here, view, keys, pending, requests, counts>>
Undo ==
    /\ pending # None /\ Undoes
    /\ pending' = None
    /\ UNCHANGED <<server, socket, here, view, keys, requests, counts>>

TogglePin(c) ==
    /\ here /\ c \in Visible /\ Acts
    /\ list' = [list EXCEPT ![c].pinned = ~@]
    /\ requests' = requests \cup {Request(IF list[c].pinned THEN "unpin" ELSE "pin", c)}
    /\ UNCHANGED <<server, socket, here, cursor, loads, decoding, keys, pending, asked, fails>>

\* The server answers: no event comes back to the device that asked.
Ends(r) ==
    /\ requests' = requests \ {r}
    /\ asked' = IF r.does = "delete" THEN asked \ ({r.clip} \ {pending}) ELSE asked
Serves(r) ==
    rows' = IF r.does = "delete" THEN Drop(rows, r.clip)
            ELSE [rows EXCEPT ![r.clip].pinned = r.does = "pin"]
Serve(r) ==
    /\ r \in requests /\ r.clip \in DOMAIN rows
    /\ Serves(r) /\ Ends(r)
    /\ UNCHANGED <<fresh, time, epoch, socket, here, view, keys, pending, counts>>

\* Not found, or no answer, whether it was served or not: the list is loaded.
Reloads == IF here THEN Load ELSE UNCHANGED loads
NotFound(r) ==
    /\ r \in requests /\ r.clip \notin DOMAIN rows
    /\ Ends(r) /\ Reloads
    /\ UNCHANGED <<server, socket, here, list, cursor, decoding, keys, pending, counts>>
RequestFails(r) ==
    /\ r \in requests /\ Fails /\ r.clip \in DOMAIN rows
    /\ Serves(r) \/ UNCHANGED rows
    /\ Ends(r) /\ Reloads
    /\ UNCHANGED <<fresh, time, epoch, socket, here, list, cursor, decoding, keys, pending,
                   writes, acts>>

\* The screen is left, for the settings, say: "leaving the screen sends it at
\* once".  What comes back after that is ignored.
Leave ==
    /\ here /\ here' = FALSE /\ Acts
    /\ requests' = IF pending = None THEN requests
                   ELSE requests \cup {Request("delete", pending)}
    /\ pending' = None
    /\ list' = <<>> /\ cursor' = None /\ decoding' = {}
    /\ loads' = {}
    /\ link' = FALSE /\ wire' = {}
    /\ UNCHANGED <<server, keys, asked, fails>>
Enter ==
    /\ ~here /\ here' = TRUE
    /\ Load
    /\ UNCHANGED <<server, socket, list, cursor, decoding, keys, user, counts>>

-----------------------------------------------------------------------------
\* Some clips are stored, the oldest of them pinned.
Init ==
    /\ \E n \in 1..Cardinality(Clips) :
         /\ rows = [c \in 1..n |-> [at |-> c, pinned |-> c = 1, epoch |-> 0]]
         /\ fresh = Clips \ 1..n /\ time = n
    /\ epoch = 0
    /\ link = FALSE /\ wire = {}
    /\ here = FALSE
    /\ list = <<>> /\ cursor = None /\ decoding = {}
    /\ loads = {}
    /\ held = 0 /\ asking = FALSE
    /\ pending = None /\ requests = {} /\ asked = {}
    /\ writes = 0 /\ acts = 0 /\ fails = 0

Others ==
    \/ \E c \in Clips : Create(c) \/ Bump(c) \/ Pin(c) \/ Delete(c) \/ Reencrypt(c)
    \/ Rotate
Loading == \E l \in loads : Loaded(l)
Hears == \/ \E e \in wire : Deliver(e)
         \/ \E d \in decoding : Decoded(d)
         \/ Refreshed
Answers == \E r \in requests : Serve(r) \/ NotFound(r)
Lost ==
    \/ Disconnect \/ RefreshFails
    \/ \E l \in loads : LoadFails(l)
    \/ \E r \in requests : RequestFails(r)
User ==
    \/ Look \/ LoadMore \/ Undo \/ Leave \/ Enter
    \/ \E c \in Clips : Remove(c) \/ TogglePin(c)

Next == Others \/ Loading \/ Hears \/ Answers \/ Lost \/ User \/ Connect \/ UndoTimeout

\* Requests and events come through, timers go off, the socket reconnects.
Fairness ==
    /\ WF_vars(Loading) /\ WF_vars(Hears) /\ WF_vars(Answers)
    /\ WF_vars(Connect) /\ WF_vars(UndoTimeout)

Spec == Init /\ [][Next]_vars
FairSpec == Spec /\ Fairness

-----------------------------------------------------------------------------
\* Every variable has its type, and a screen that is not shown does nothing.
TypeOK ==
    /\ DOMAIN rows \subseteq Clips \ fresh /\ \A c \in DOMAIN rows : rows[c] \in Row
    /\ DOMAIN list \subseteq Clips \ fresh /\ \A c \in DOMAIN list : list[c] \in Item
    /\ fresh \subseteq Clips /\ time \in 0..MaxTime /\ epoch \in Epochs
    /\ {link, here, asking} \subseteq BOOLEAN /\ held \in 0..epoch
    /\ cursor \in 0..MaxTime
    /\ pending \in Clips \cup {None} /\ asked \subseteq Clips
    /\ \A r \in requests : r.does \in {"delete", "pin", "unpin"} /\ r.clip \in Clips
    /\ ~here => ~link /\ decoding = {} /\ loads = {} /\ pending = None
    /\ ~link => wire = {}

\* Undone in time, a clip stays: this screen deletes none the user has not
\* deleted and left deleted, whatever was deleted before it or after.
UndoneStays ==
    [][\A c \in DOMAIN rows \ DOMAIN rows' : requests' # requests => c \in asked]_vars

\* "A delete waits out its undo window, then goes to the server; leaving the
\* screen sends it at once": unless undone, the server comes to answer it or
\* the request is lost.
DeletesReach == \A c \in Clips : c \in asked ~> c \notin asked

\* The screen shows every pin and the newest page, each clip as it is stored.
Current ==
    here => /\ Pins \cup Page(None) \subseteq DOMAIN list
            /\ \A c \in DOMAIN list :
                 c \in DOMAIN rows /\ list[c] = Shown(rows[c], held)

\* "Refetch whenever it comes back online and whenever the tab is looked at
\* again": looked at again and again, it shows what is there in the end, though
\* events were lost, overtaken by deletes or overwritten by older pages.
LooksConverge == []<><<Look>>_vars => <>[]Current

\* Stated by the tray panel (apps/desktop/src/App.tsx:375): "Live events keep
\* the list current while the socket is up".
LiveIsCurrent == <>[](link /\ fails = 0) => <>[]Current
=============================================================================
