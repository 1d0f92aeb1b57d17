-------------------------------- MODULE IniText --------------------------------
(***************************************************************************)
(* The text of a configuration file as IniFile.cpp reads, searches and     *)
(* edits it: a sequence of lines.  Only the last line can lack its         *)
(* newline, and then whatever is written behind it becomes part of it.     *)
(* Names are compared without regard to case: a name here is a name up to  *)
(* case.  Values are not empty, and without the blanks and quotes that      *)
(* reading trims.                                                          *)
(***************************************************************************)
EXTENDS SequencesExt

CONSTANTS Sections, Keys,
          Values,     \* values as they are written
          Absent,     \* NULL: no key, no value
          Damaged     \* a value with foreign text in it, or a part of one

ASSUME IniTextAssumption == Absent \notin Values /\ Damaged \notin Values

Line == [kind : {"section", "item", "other"}, name : Sections \cup Keys \cup {Absent},
         value : Values \cup {Absent, Damaged}, nl : BOOLEAN]

Header(s)  == [kind |-> "section", name |-> s, value |-> Absent, nl |-> TRUE]
Item(k, v) == [kind |-> "item", name |-> k, value |-> v, nl |-> TRUE]
\* A comment, an empty line, or anything the parser makes nothing of.
Other      == [kind |-> "other", name |-> Absent, value |-> Absent, nl |-> TRUE]

Open(line)  == [line EXCEPT !.nl = FALSE]
Ends(lines) == lines = <<>> \/ Last(lines).nl

\* The pieces of a buffer in one file, read again: a line without newline takes
\* in the next.  Text behind "[s" or a comment is never looked at again, text
\* behind a value is part of it (mutant: the value is the name behind it).
TakesName(line, next) == [line EXCEPT !.nl = next.nl, !.value = next.name]
Takes(line, next) == [line EXCEPT !.nl = next.nl,
                                  !.value = IF line.kind = "item" THEN Damaged ELSE @]
AddLine(lines, next) == IF Ends(lines) THEN Append(lines, next)
                        ELSE Append(Front(lines), Takes(Last(lines), next))
Joined(buffer) == IF \A n \in 1..Len(buffer) - 1 : buffer[n].nl THEN buffer
                  ELSE FoldLeft(AddLine, <<>>, buffer)

\* The first `n' units of the text.  A unit is a line, or one half of a line
\* that has a value to cut.
Units(lines, m) == m + Cardinality({l \in 1..m : lines[l].kind = "item"})
Size(lines)     == Units(lines, Len(lines))
Prefix(lines, n) ==
    LET whole == Cardinality({m \in DOMAIN lines : Units(lines, m) <= n})
        half  == IF Units(lines, whole) < n /\ whole < Len(lines)
                 THEN <<Open([lines[whole + 1] EXCEPT !.value = Damaged])>> ELSE <<>>
    IN  SubSeq(lines, 1, whole) \o half

-------------------------------------------------------------------------------
(* Searching.                                                               *)

IsSection(line)       == line.kind = "section"
HeaderAt(lines, s)    == SelectInSeq(lines, LAMBDA l : IsSection(l) /\ l.name = s)
NamesOf(lines)        == {lines[n].name : n \in {m \in DOMAIN lines : IsSection(lines[m])}}

\* Where the section of the header at h ends: at the next header or behind the
\* last line (mutant: always the latter).
SectionEndOfFile(lines, h) == Len(lines) + 1
SectionEnd(lines, h) ==
    Min({n \in h + 1..Len(lines) : IsSection(lines[n])} \cup {Len(lines) + 1})

KeysOf(lines, h, k) == {n \in h + 1..SectionEnd(lines, h) - 1 :
                           lines[n].kind = "item" /\ lines[n].name = k}

\* The first such key of the first such section.
_GetPrivateProfileItemValue(lines, s, k) ==
    LET h == HeaderAt(lines, s) IN
    IF h = 0 \/ KeysOf(lines, h, k) = {} THEN Absent
    ELSE lines[Min(KeysOf(lines, h, k))].value

-------------------------------------------------------------------------------
(* Editing.                                                                 *)

Picked(lines, keep) ==
    FlattenSeq([n \in DOMAIN lines |-> IF n \in keep THEN <<lines[n]>> ELSE <<>>])

\* _bWritePrivateProfileValue with a key.  A new item goes before the next
\* header; at the end of the file, before a last line that is no item.
SetValue(lines, s, k, v) ==
    LET h     == HeaderAt(lines, s)
        e     == SectionEnd(lines, h)
        found == KeysOf(lines, h, k)
        last  == Len(lines)
    IN  IF h = 0 THEN lines \o <<Header(s), Item(k, v)>>
        ELSE IF found # {}
             THEN ReplaceAt(lines, Min(found), [lines[Min(found)] EXCEPT !.value = v, !.nl = TRUE])
        ELSE IF e <= last THEN InsertAt(lines, e, Item(k, v))
        ELSE IF h < last /\ lines[last].kind = "other" THEN InsertAt(lines, last, Item(k, v))
        ELSE Append(lines, Item(k, v))

\* The same with value NULL.
RemoveKey(lines, s, k) ==
    LET h == HeaderAt(lines, s) IN
    IF h = 0 \/ KeysOf(lines, h, k) = {} THEN lines
    ELSE RemoveAt(lines, Min(KeysOf(lines, h, k)))

\* The lines of the sections named s, headers included.
LinesOf(lines, s) ==
    UNION {h..SectionEnd(lines, h) - 1 :
              h \in {n \in DOMAIN lines : IsSection(lines[n]) /\ lines[n].name = s}}

\* The same with key NULL.  Its loop leaves at the last line before it looks
\* whether that is the header of another section.
RemoveSection(lines, s) ==
    LET gone == LinesOf(lines, s)
    IN  Picked(lines, DOMAIN lines
                      \ (gone \cup (IF Len(lines) - 1 \in gone THEN {Len(lines)} ELSE {})))

\* WritePrivateProfileSection: with NULL, and with a list of items, which
\* replaces all lines of the section.
DeleteSection(lines, s) == Picked(lines, DOMAIN lines \ LinesOf(lines, s))

ReplaceSection(lines, s, items) ==
    IF HeaderAt(lines, s) = 0 THEN lines \o <<Header(s)>> \o items
    ELSE FlattenSeq([n \in DOMAIN lines |->
             IF n \notin LinesOf(lines, s) THEN <<lines[n]>>
             ELSE IF IsSection(lines[n]) THEN <<lines[n]>> \o items
             ELSE <<>>])
===============================================================================
