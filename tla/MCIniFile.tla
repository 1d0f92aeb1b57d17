------------------------------ MODULE MCIniFile ------------------------------
(* An empty file; the file as the repository ships its own, last line without *)
(* newline; comments at both ends; an empty section; a section twice.         *)
EXTENDS IniFile

MCTexts == { <<>>,
             <<Header("s1"), Item("k0", "u"), Open(Item("k1", "u"))>>,
             <<Other, Header("s1"), Item("k0", "u"), Header("s2"), Item("k1", "u"), Open(Other)>>,
             <<Header("s1"), Item("k1", "u"), Header("s2")>>,
             <<Header("s2"), Header("s1"), Item("k1", "u"), Header("s2"), Item("k1", "u")>> }
MCCalls == [op : {"set"}, s : Sections, k : {"k1"}, v : {"v"}]
           \cup [op : {"remove"}, s : Sections, k : {"k1"}, v : {Absent}]
           \cup [op : {"get"}, s : {"s1"}, k : {"k1"}, v : {Absent}]
           \cup [op : {"section", "drop"}, s : {"s1"}, k : {Absent}, v : {Absent}]
           \cup [op : {"names", "delete"}, s : {"s2"}, k : {Absent}, v : {Absent}]
           \cup [op : {"replace"}, s : {"s1"}, k : {"k1"}, v : {"v"}]
Perms == Permutations(Procs)
==============================================================================
