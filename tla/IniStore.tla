------------------------------- MODULE IniStore -------------------------------
(***************************************************************************)
(* What IniFile.h promises of a configuration file that several processes  *)
(* use: a table from section and key to a value, which the functions that  *)
(* write change one after the other, each at one moment between its call   *)
(* and its return.  It also says what the promise does not cover: trouble  *)
(* of the system, and files that are not clean text.                       *)
(***************************************************************************)
CONSTANTS Procs, Sections, Keys,
          Values,     \* what a key can be set to
          Absent,     \* no such key
          Damaged     \* a value that nobody wrote

NoEdit == [op |-> "none", s |-> Absent, k |-> Absent, v |-> Absent]

VARIABLES store,
          names,     \* the sections there are
          form,      \* "clean" or "loose" text, or "coded"
          asked,     \* the edit of the call a process is in
          status     \* "idle" | "asked" | "trouble", or its result
storeVars == <<store, names, form, asked, status>>

Becomes(p, st) == status' = [status EXCEPT ![p] = st]

\* The slots that an edit changes, and their values; the sections it makes and
\* removes.
Slots(e)   == {e.s} \X (IF e.op \in {"set", "remove"} THEN {e.k} ELSE Keys)
Applied(e) == [x \in Sections \X Keys |->
                 IF x \notin Slots(e) THEN store[x]
                 ELSE IF e.op \in {"set", "replace"} /\ x[2] = e.k THEN e.v ELSE Absent]
Makes(e)   == IF e.op \in {"set", "clear", "replace"} THEN {e.s} ELSE {}
Drops(e)   == IF e.op \in {"drop", "delete"} THEN {e.s} ELSE {}

\* A section with at least one key.
InUse(st, s) == \E k \in Keys : st[<<s, k>>] # Absent

\* The call of an edit, which may be refused at once.
Begin(p) == /\ status[p] = "idle" /\ status'[p] \in {"asked", "false"}
            /\ asked' = [asked EXCEPT ![p] = asked'[p]]
            /\ Becomes(p, status'[p])
            /\ UNCHANGED <<store, names, form>>

\* The whole edit and nothing else, and the file stays clean text.  Removing
\* one section may take sections with it that have no key.
Commit(p) ==
    /\ status[p] = "asked" /\ form = "clean" /\ status'[p] = "true"
    /\ LET e     == asked[p]
           new   == store'
           after == (names \cup Makes(e)) \ Drops(e)
       IN  /\ new = Applied(e)
           /\ IF Drops(e) = {}
              THEN names' = after
              ELSE names' \subseteq after /\ \A s \in after \ names' : ~InUse(new, s)
    /\ Becomes(p, "true")
    /\ UNCHANGED <<form, asked>>

\* Text is loose when its last line has no newline or a section has a key
\* twice.  What is written behind such a last line may be lost or land in the
\* last section, as a second item of the key there, and the last value be
\* damaged; removing a key may bring out its second item.  Outside the slots of
\* the edit one section can change, and only to what the edit writes.
Strays(e) == {Applied(e)[x] : x \in Slots(e)} \cup {Damaged}
CommitLoose(p) ==
    /\ status[p] = "asked" /\ form = "loose" /\ status'[p] = "true"
    /\ LET e   == asked[p]
           was == store
           new == store'
       IN  /\ \A x \in DOMAIN was :
                 \/ new[x] \in {was[x]} \cup Strays(e)
                 \/ e.op = "remove" /\ x \in Slots(e)
           /\ \A x, y \in {z \in DOMAIN was \ Slots(e) : new[z] # was[z]} : x[1] = y[1]
           /\ names' \subseteq names \cup Makes(e)
           /\ \A s \in (names \ Drops(e)) \ names' : ~InUse(new, s)
    /\ form' \in {"clean", "loose"}
    /\ Becomes(p, "true")
    /\ UNCHANGED asked

\* The system fails this call, or finds a file that is not plain text: what is
\* left is at most a part of what was asked for.
Fail(p) == /\ status[p] = "asked"
           /\ Becomes(p, "trouble")
           /\ UNCHANGED <<store, names, form, asked>>
Spoil(p) ==
    /\ status[p] \in {"asked", "trouble"} /\ status'[p] \in {"trouble", "part"}
    /\ LET e   == asked[p]
           was == store
           new == store'
       IN  \A x \in DOMAIN was :
              \/ new[x] \in {was[x], Absent} \cup Strays(e)
              \/ e.op = "remove" /\ x \in Slots(e)
    /\ Becomes(p, status'[p])
    /\ UNCHANGED asked

\* A process dies in the middle and leaves an empty file.
Die(p) == /\ status[p] \in {"asked", "trouble"} /\ status'[p] = "idle"
          /\ store' = [x \in DOMAIN store |-> Absent] /\ names' = {} /\ form' = "clean"
          /\ asked' = [asked EXCEPT ![p] = NoEdit]
          /\ Becomes(p, "idle")

Refuse(p) == /\ status[p] \in {"asked", "trouble"}
             /\ Becomes(p, "false")
             /\ UNCHANGED <<store, names, form, asked>>

\* A return, or a process that died before it changed anything.
Leave(p) == /\ status[p] # "idle"
            /\ asked' = [asked EXCEPT ![p] = NoEdit]
            /\ Becomes(p, "idle")
            /\ UNCHANGED <<store, names, form>>

StoreInit == /\ store \in [Sections \X Keys -> Values \cup {Absent, Damaged}]
             /\ names \subseteq Sections /\ form \in {"clean", "loose", "coded"}
             /\ asked = [p \in Procs |-> NoEdit] /\ status = [p \in Procs |-> "idle"]
StoreNext == \E p \in Procs : \/ Begin(p) \/ Commit(p) \/ CommitLoose(p)
                              \/ Fail(p) \/ Spoil(p) \/ Die(p) \/ Refuse(p) \/ Leave(p)
StoreSpec == StoreInit /\ [][StoreNext]_storeVars
===============================================================================
