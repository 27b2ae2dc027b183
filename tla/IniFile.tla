------------------------------ MODULE IniFile ------------------------------
(***************************************************************************)
(* read_ini(): reading SUTAgent.ini, a line at a time, into a dictionary   *)
(* of sections.  Lines are kinds of lines, after trim(): blank lines,      *)
(* comments and lines that are bogus are "skipped".  Lines fit into the    *)
(* buffer of 1024 characters; a longer one comes as several lines.         *)
(***************************************************************************)
EXTENDS Integers, Sequences

CONSTANTS
  Sections,   \* names of sections, with the one before the first title
  Untitled,   \* the section of the lines before the first title
  Names,
  Values,
  NoValue,
  MaxLines    \* bound: lines of the file

IniAssumption ==
  /\ Untitled \in Sections
  /\ NoValue \notin Values
  /\ MaxLines \in Nat

Line ==
       [kind : {"skipped", "unclosed"}]
  \cup [kind : {"title"}, section : Sections]
  \cup [kind : {"assignment"}, name : Names, value : Values]

Missing == [exists |-> FALSE, lines |-> <<>>]
File == [exists : {TRUE}, lines : UNION {[1 .. n -> Line] : n \in 0 .. MaxLines}] \cup {Missing}

VARIABLES
  file,
  at,       \* the line that fgets() reads next
  section,  \* c_section
  data,     \* per section a dictionary; what it lacks is NoValue
  opened,   \* whether f is open
  ret       \* "none", or what read_ini() returned, TRUE or FALSE

iniVars == <<file, at, section, data, opened, ret>>

Dict == [Names -> Values \cup {NoValue}]
EmptyDict == [n \in Names |-> NoValue]
Returned == ret # "none"

\* Nothing has been read.
Fresh ==
  /\ at = 1
  /\ section = Untitled
  /\ data = [s \in Sections |-> EmptyDict]
  /\ opened = FALSE
  /\ ret = "none"

IniInit == file \in File /\ Fresh
-----------------------------------------------------------------------------
Open ==
  /\ ~Returned /\ ~opened
  /\ IF file.exists THEN opened' = TRUE /\ UNCHANGED ret
                    ELSE ret' = "false" /\ UNCHANGED opened
  /\ UNCHANGED <<file, at, section, data>>

\* fgets() has a line, which is l.
Reads(l) ==
  /\ ~Returned /\ opened
  /\ at <= Len(file.lines) /\ l = file.lines[at]
  /\ at' = at + 1

Skip(l) == l.kind = "skipped" /\ UNCHANGED <<section, data, opened, ret>>

\* Faulty variant: an old section is kept.
TitleOnly(l) ==
  l.kind = "title" /\ section' = l.section /\ UNCHANGED <<data, opened, ret>>

\* A title makes a new dictionary, for an old section too.
Title(l) ==
  /\ l.kind = "title"
  /\ section' = l.section
  /\ data' = [data EXCEPT ![l.section] = EmptyDict]
  /\ UNCHANGED <<opened, ret>>

\* A title without its closing bracket ends the reading.
Unclosed(l) ==
  /\ l.kind = "unclosed"
  /\ opened' = FALSE /\ ret' = "false"
  /\ UNCHANGED <<section, data>>

Assign(l) ==
  /\ l.kind = "assignment"
  /\ data' = [data EXCEPT ![section][l.name] = l.value]
  /\ UNCHANGED <<section, opened, ret>>

ReadLine ==
  /\ \E l \in Line : Reads(l) /\ (Skip(l) \/ Title(l) \/ Unclosed(l) \/ Assign(l))
  /\ UNCHANGED file

End ==
  /\ ~Returned /\ opened /\ at > Len(file.lines)
  /\ opened' = FALSE /\ ret' = "true"
  /\ UNCHANGED <<file, at, section, data>>

IniNext == Open \/ ReadLine \/ End

IniSpec == IniInit /\ [][IniNext]_iniVars
-----------------------------------------------------------------------------
(***************************************************************************)
(* What a file says, line by line.                                         *)
(***************************************************************************)
Before(i) == 1 .. i - 1
Titles == {i \in DOMAIN file.lines : file.lines[i].kind = "title"}

\* The section line i is in.
In(i, s) ==
  LET above == Titles \cap Before(i)
  IN  IF above = {} THEN s = Untitled
      ELSE \E t \in above : file.lines[t].section = s /\ \A u \in above : u <= t

Sets(i, s, n) ==
  file.lines[i].kind = "assignment" /\ file.lines[i].name = n /\ In(i, s)

\* Neither a title of the same section nor another assignment comes after it.
Lasts(i, s, n) ==
  \A j \in DOMAIN file.lines : j > i =>
    /\ ~Sets(j, s, n)
    /\ j \in Titles => file.lines[j].section # s

WellFormed == \A i \in DOMAIN file.lines : file.lines[i].kind # "unclosed"

\* However read_ini() returns, by one of three exits, it has closed the file.  A
\* well-formed file is read to its end, and each name of a section gets the
\* value of its last assignment below the last title of that section; a file
\* that does not exist or has a broken title is refused.
SaysWhatItSays ==
  /\ Returned => ~opened
  /\ ret = "true" =>
       /\ WellFormed /\ file.exists
       /\ \A s \in Sections, n \in Names, v \in Values :
            data[s][n] = v <=>
              \E i \in DOMAIN file.lines :
                Sets(i, s, n) /\ Lasts(i, s, n) /\ file.lines[i].value = v
  /\ ret = "false" => ~(WellFormed /\ file.exists)
=============================================================================
