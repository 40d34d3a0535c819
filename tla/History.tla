------------------------------- MODULE History -------------------------------
(***************************************************************************)
(* What an account's clipboard history promises, whatever key its entries  *)
(* are under: an entry is one text from the copy that made it until it is  *)
(* deleted or expires, an entry once gone does not come back, and a text   *)
(* copied again gets another entry only while no entry of it can be        *)
(* recognised, which takes a re-key.                                       *)
(***************************************************************************)
CONSTANTS
    Texts,      \* plaintexts
    ClipIds     \* ids of entries

VARIABLES
    entries,    \* id |-> the text it holds
    gone,       \* ids of entries deleted or expired
    known       \* ids of the entries a copy of their text would find

historyVars == <<entries, gone, known>>

Init ==
    /\ entries = [i \in {} |-> {}]
    /\ gone = {}
    /\ known = {}

Add(i, t) ==
    /\ i \notin DOMAIN entries \cup gone
    /\ \A j \in known : entries[j] # t
    /\ entries' = [j \in DOMAIN entries \cup {i} |-> IF j = i THEN t ELSE entries[j]]
    /\ known' = known \cup {i}
    /\ UNCHANGED gone

Remove(S) ==
    /\ S \subseteq DOMAIN entries
    /\ entries' = [i \in DOMAIN entries \ S |-> entries[i]]
    /\ gone' = gone \cup S
    /\ known' = known \ S

\* A new key: every dedupe tag is made afresh, and none matches an old one.
Rekey ==
    /\ known' = {}
    /\ UNCHANGED <<entries, gone>>

\* Entries re-encrypted under it are found again.
Recognise(S) ==
    /\ S \subseteq DOMAIN entries
    /\ known' = known \cup S
    /\ UNCHANGED <<entries, gone>>

Next ==
    \/ \E i \in ClipIds, t \in Texts : Add(i, t)
    \/ \E S \in SUBSET ClipIds : Remove(S) \/ Recognise(S)
    \/ Rekey

Spec == Init /\ [][Next]_historyVars
==============================================================================
