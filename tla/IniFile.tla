-------------------------------- MODULE IniFile --------------------------------
(***************************************************************************)
(* The functions of IniFile.cpp and OIniFile.cpp on one file that several  *)
(* processes use, by system call.  Those that write hold a record lock     *)
(* from open to close; those that read ask for one as well but have the    *)
(* file open for reading only, where F_WRLCK fails, and go on without.     *)
(* The file system, and processes that die, are external.                  *)
(***************************************************************************)
EXTENDS IniText

CONSTANTS Procs, NoProc,    \* processes, and "no process has the lock"
          Calls,      \* bound of the model: the calls that are made
          MaxWrites,  \* bound of the model: calls that write
          MaxFaults,  \* bound of the model: failures of the system
          Formats,    \* how the first files are coded
          Texts,      \* the lines of the first files
          Found       \* result of bFindSections

ASSUME IniFileAssumption ==
    /\ NoProc \notin Procs /\ MaxWrites \in Nat /\ MaxFaults \in Nat
    /\ Formats \subseteq {"text", "bom", "le", "be", "raw"} /\ Texts \subseteq Seq(Line)
    /\ Calls \subseteq
           [op : {"set", "replace"}, s : Sections, k : Keys, v : Values]
           \cup [op : {"get", "remove"}, s : Sections, k : Keys, v : {Absent}]
           \cup [op : {"names", "section", "drop", "delete"}, s : Sections, k : {Absent}, v : {Absent}]

VARIABLES file,    \* [format, lines]
          holder,  \* of the lock
          pc, call,
          old,     \* what a process has read of the file
          out,     \* what it is about to write
          size,    \* st_size as a reader saw it
          result
iniVars == <<file, holder, pc, call, old, out, size, result>>

VARIABLES writes,    \* calls that write so far
          faults,    \* how often the system failed so far
          disturbed, \* a reader's file was not whole all the time since fstat
          saved,     \* the table in the file as it was last written
          trouble    \* a writer's file is no plain text, or the system failed
vars == <<iniVars, writes, faults, disturbed, trouble, saved>>

NoFile == [format |-> "text", lines |-> <<>>]

\* Calls: "get" is GetPrivateProfileString, Int and Struct, "names" and
\* "section" are GetPrivateProfileSectionNames and GetPrivateProfileSection
\* ("section" as the first half of iDeleteSection), "set" and "remove" are
\* WritePrivateProfileString and Struct with a key, "drop" with key NULL,
\* "delete" and "replace" are WritePrivateProfileSection.
NoCall    == [op |-> "none", s |-> Absent, k |-> Absent, v |-> Absent]
IsRead(c) == c.op \in {"get", "names", "section"}

\* The table in a file, for IniStore.
Table(f) == [x \in Sections \X Keys |->
               IF f.format = "raw" THEN Absent
               ELSE _GetPrivateProfileItemValue(f.lines, x[1], x[2])]
Named(f) == IF f.format = "raw" THEN {} ELSE NamesOf(f.lines) \cap Sections
HasKeyTwice(lines) ==
    \E s \in NamesOf(lines), k \in Keys :
        Cardinality(KeysOf(lines, HeaderAt(lines, s), k)) > 1
Saved(f) == [store |-> Table(f), names |-> Named(f),
             form  |-> IF f.format # "text" THEN "coded"
                       ELSE IF Ends(f.lines) /\ ~HasKeyTwice(f.lines) THEN "clean" ELSE "loose"]

Goto(p, l)   == pc' = [pc EXCEPT ![p] = l]
Return(p, r) == Goto(p, "done") /\ result' = [result EXCEPT ![p] = r]

Fault(failed) == /\ faults' = faults + (IF failed THEN 1 ELSE 0)
                 /\ faults' <= MaxFaults

\* F_SETLKW waits until nobody else has the lock (mutant: it does not).
FreeAlways == TRUE
Free       == holder = NoProc

-------------------------------------------------------------------------------
(* Coding: ParseDataCode looks for a byte order mark; without one, 16-bit   *)
(* text is unknown to it, and writing ends each line at its first NUL.      *)

\* Reading text with a mark counts its three bytes twice: three bytes from
\* behind the buffer, not a NUL or one, follow the last line.
Scrap == <<Open(Other)>>
Decoded(f) == CASE f.format = "bom" -> {f.lines, Joined(f.lines \o Scrap)}
                [] f.format = "raw" -> {Scrap}
                [] OTHER            -> {f.lines}

\* The mark of 16-bit text is not written again, and "UCS-2LB" is no coding:
\* big-endian text comes out as UTF-8.  Of no lines only a mark is left.  For
\* an empty file the coding is uninitialised.
Codings(f) == IF f.lines = <<>> THEN {"text", "bom", "le", "be"} ELSE {f.format}
Coded(format, lines) ==
    CASE format = "bom" /\ lines = <<>> -> [format |-> "text", lines |-> Scrap]
      [] format = "bom" /\ lines # <<>> -> [format |-> "bom",  lines |-> lines]
      [] format = "le"                  -> [format |-> "raw",  lines |-> lines]
      [] OTHER                          -> [format |-> "text", lines |-> lines]

Edited(lines, c) ==
    CASE c.op = "set"     -> SetValue(lines, c.s, c.k, c.v)
      [] c.op = "remove"  -> RemoveKey(lines, c.s, c.k)
      [] c.op = "drop"    -> RemoveSection(lines, c.s)
      [] c.op = "delete"  -> DeleteSection(lines, c.s)
      [] c.op = "clear"   -> ReplaceSection(lines, c.s, <<>>)
      [] c.op = "replace" -> ReplaceSection(lines, c.s, <<Item(c.k, c.v)>>)

\* A read that finds no text at all is answered with Absent, as is a key that
\* is not there (mutant: only the first section is found).
AnswerOfFirst(lines, c) ==
    IF c.op = "get" THEN _GetPrivateProfileItemValue(lines, c.s, c.k)
    ELSE IF lines # <<>> /\ IsSection(lines[1]) /\ c.s = lines[1].name THEN Found ELSE Absent
Answer(lines, c) ==
    IF c.op = "get" THEN _GetPrivateProfileItemValue(lines, c.s, c.k)
    ELSE IF c.s \in NamesOf(lines) THEN Found ELSE Absent

-------------------------------------------------------------------------------
(* Writing.                                                                 *)

\* OAutoFileOperate: open, then wait for the lock.  open() may fail.
Write(p, c) ==
    /\ pc[p] = "idle" /\ ~IsRead(c) /\ writes < MaxWrites
    /\ writes' = writes + 1
    /\ call' = [call EXCEPT ![p] = c]
    /\ \/ Goto(p, "opened") /\ UNCHANGED result
       \/ Return(p, "false")
    /\ UNCHANGED <<file, holder, old, out, size, faults, disturbed, trouble, saved>>

_nLockFile(p) == /\ pc[p] = "opened" /\ Free
                 /\ holder' = p
                 /\ Goto(p, "locked")
                 /\ UNCHANGED <<file, call, old, out, size, result, writes, faults,
                                disturbed, trouble, saved>>

\* _nReadData.  A read() that fails leaves no lines, like an empty file.
ReadLocked(p) == /\ pc[p] = "locked"
                 /\ \E f \in {file, NoFile} :
                      /\ old' = [old EXCEPT ![p] = f]
                      /\ trouble' = [trouble EXCEPT ![p] = f # file]
                      /\ Fault(f # file)
                 /\ Goto(p, "read")
                 /\ UNCHANGED <<file, holder, call, out, size, result, disturbed, writes, saved>>

Rewritten(f) == /\ file' = f
                /\ disturbed' = [q \in Procs |-> disturbed[q] \/ pc[q] = "sized"]

\* The edit and the first half of _nWriteData: ftruncate, unless there is
\* nothing to write.
Truncate(p) ==
    /\ pc[p] = "read"
    /\ \E lines \in Decoded(old[p]), format \in Codings(old[p]) :
         LET new == Coded(format, Joined(Edited(lines, call[p])))
         IN  IF new.lines = <<>>
             THEN Return(p, "false") /\ UNCHANGED <<file, out, disturbed, trouble>>
             ELSE /\ Rewritten(NoFile)
                  /\ out' = [out EXCEPT ![p] = new]
                  /\ trouble' = [trouble EXCEPT ![p] = \/ @ \/ format # "text"
                                                       \/ old[p].format # "text"]
                  /\ Goto(p, "truncated") /\ UNCHANGED result
    /\ old' = [old EXCEPT ![p] = NoFile]
    /\ UNCHANGED <<holder, call, size, writes, faults, saved>>

\* Its second half.  A write() that fails, or takes only a part, is a success
\* to the caller too: the result is only compared with 0.
WriteData(p) ==
    /\ pc[p] = "truncated"
    /\ \E n \in 0..Size(out[p].lines) :
         /\ Rewritten(IF n = 0 THEN NoFile ELSE [out[p] EXCEPT !.lines = Prefix(@, n)])
         /\ saved' = Saved(file')
         /\ trouble' = [trouble EXCEPT ![p] = @ \/ n < Size(out[p].lines)]
         /\ Fault(n < Size(out[p].lines))
    /\ out' = [out EXCEPT ![p] = NoFile]
    /\ Return(p, "true")
    /\ UNCHANGED <<holder, call, old, size, writes>>

-------------------------------------------------------------------------------
(* Reading.                                                                 *)

\* Open and fstat.  A file that cannot be opened reads like an empty one.
ReadSize(p, c) ==
    /\ pc[p] = "idle" /\ IsRead(c)
    /\ call' = [call EXCEPT ![p] = c]
    /\ size' = [size EXCEPT ![p] = Size(file.lines)]
    /\ disturbed' = [disturbed EXCEPT ![p] = \E q \in Procs : pc[q] = "truncated"]
    /\ Goto(p, "sized")
    /\ UNCHANGED <<file, holder, old, out, result, writes, faults, trouble, saved>>

\* As many bytes as fstat said, or none at all.
ReadText(p) ==
    LET got == IF Size(file.lines) < size[p] THEN <<>> ELSE Prefix(file.lines, size[p])
    IN  /\ pc[p] = "sized"
        /\ \E lines \in IF got = <<>> THEN {got} ELSE Decoded([file EXCEPT !.lines = got]) :
             Return(p, Answer(lines, call[p]))
        /\ size' = [size EXCEPT ![p] = 0] /\ disturbed' = [disturbed EXCEPT ![p] = FALSE]
        /\ UNCHANGED <<file, holder, call, old, out, writes, faults, trouble, saved>>

-------------------------------------------------------------------------------
\* What the system does when a file is closed, by ~OAutoFileOperate or because
\* the process died: the lock is gone.
Leave(p) ==
    /\ holder' = IF holder = p THEN NoProc ELSE holder
    /\ old' = [old EXCEPT ![p] = NoFile] /\ out' = [out EXCEPT ![p] = NoFile]
    /\ size' = [size EXCEPT ![p] = 0] /\ result' = [result EXCEPT ![p] = Absent]
    /\ disturbed' = [disturbed EXCEPT ![p] = FALSE]
    /\ trouble' = [trouble EXCEPT ![p] = FALSE]
    /\ saved' = IF pc[p] = "truncated" THEN Saved(file) ELSE saved
    /\ UNCHANGED <<file, writes>>

\* iDeleteSection goes on to clear the section that it found.
Close(p) ==
    /\ pc[p] = "done"
    /\ Leave(p) /\ Fault(FALSE)
    /\ IF call[p].op = "section" /\ result[p] = Found
       THEN Goto(p, "opened") /\ call' = [call EXCEPT ![p].op = "clear"]
       ELSE Goto(p, "idle") /\ call' = [call EXCEPT ![p] = NoCall]

Dies(p) == /\ pc[p] # "idle"
           /\ Leave(p) /\ Fault(TRUE)
           /\ Goto(p, "idle") /\ call' = [call EXCEPT ![p] = NoCall]

Init == /\ file \in [format : Formats, lines : Texts]
        /\ holder = NoProc /\ pc = [p \in Procs |-> "idle"]
        /\ call = [p \in Procs |-> NoCall]
        /\ old = [p \in Procs |-> NoFile] /\ out = [p \in Procs |-> NoFile]
        /\ size = [p \in Procs |-> 0] /\ result = [p \in Procs |-> Absent]
        /\ saved = Saved(file)
        /\ writes = 0 /\ faults = 0
        /\ disturbed = [p \in Procs |-> FALSE] /\ trouble = [p \in Procs |-> FALSE]

Step(p) == \/ \E c \in Calls : Write(p, c) \/ ReadSize(p, c)
           \/ _nLockFile(p) \/ ReadLocked(p) \/ Truncate(p) \/ WriteData(p)
           \/ ReadText(p) \/ Close(p) \/ Dies(p)
Next == \E p \in Procs : Step(p)

Spec == Init /\ [][Next]_vars

-------------------------------------------------------------------------------
Files == [format : {"text", "bom", "le", "be", "raw"}, lines : Seq(Line)]

IniTypeOK ==
    /\ file \in Files /\ holder \in Procs \cup {NoProc}
    /\ pc \in [Procs -> {"idle", "opened", "locked", "read", "truncated", "sized", "done"}]
    /\ call \in [Procs -> {NoCall} \cup Calls
                          \cup [op : {"clear"}, s : Sections, k : {Absent}, v : {Absent}]]
    /\ old \in [Procs -> Files] /\ out \in [Procs -> Files] /\ size \in [Procs -> Nat]
    /\ result \in [Procs -> {"true", "false", Found, Absent, Damaged} \cup Values]
    /\ saved \in [store : [Sections \X Keys -> Values \cup {Absent, Damaged}],
                  names : SUBSET Sections, form : {"clean", "loose", "coded"}]
    /\ writes \in 0..MaxWrites /\ faults \in 0..MaxFaults
    /\ disturbed \in [Procs -> BOOLEAN] /\ trouble \in [Procs -> BOOLEAN]

\* Unless its own read failed, a process rewrites the file that is there: from
\* its read to its truncation nobody else has changed it, and what it writes
\* goes into the file that it emptied itself.
ReadIsCurrent  == \A p \in Procs : pc[p] = "read" /\ ~trouble[p] => file = old[p]
EmptiedIsEmpty == \A p \in Procs : pc[p] = "truncated" => file = NoFile
NoUpdateLost   == ReadIsCurrent /\ EmptiedIsEmpty

Writers == {p \in Procs : pc[p] # "idle" /\ ~IsRead(call[p])}
asked   == [p \in Procs |-> IF p \in Writers THEN call[p] ELSE NoCall]
status  == [p \in Procs |->
              IF p \notin Writers THEN "idle"
              ELSE IF pc[p] # "done" THEN IF trouble[p] THEN "trouble" ELSE "asked"
              ELSE IF result[p] = "true" /\ trouble[p] THEN "part" ELSE result[p]]
Store == INSTANCE IniStore WITH
    store <- saved.store, names <- saved.names, form <- saved.form,
    asked <- asked, status <- status

\* The calls change the file like a table that is changed by one call after the
\* other, whole, and hold to the text around what they change.
ImplementsStore == Store!StoreSpec

\* A reader, who has no lock, gets the value that the file has when it reads.
\* Only if the file is rewritten meanwhile it may get none or one cut short,
\* and even then never one of another key or of an earlier file.
ReadsFile ==
    [][\A p \in Procs :
         pc[p] = "sized" /\ pc'[p] = "done" /\ file.format = "text" =>
           LET c     == call[p]
               truth == IF c.op = "get" THEN Table(file)[<<c.s, c.k>>]
                        ELSE IF c.s \in Named(file) THEN Found ELSE Absent
           IN  \/ result'[p] = truth
               \/ disturbed[p] /\ result'[p] \in {Absent, Damaged}]_vars
===============================================================================
