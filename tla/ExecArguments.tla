--------------------------- MODULE ExecArguments ---------------------------
(***************************************************************************)
(* How a command line with exec is taken apart: the constructor of         *)
(* CommandLine splits it at blanks, and exec() finds the assignments to    *)
(* the environment in the first argument, between double quotes or not,    *)
(* separated by commas.  A step is one round of a loop.                    *)
(*                                                                         *)
(* The line is what follows the word exec, a sequence of characters.       *)
(***************************************************************************)
EXTENDS Integers, Sequences, FiniteSets, SequencesExt

CONSTANTS
  Characters, \* those of the lines: blank, quote, equals, comma and others
  MaxLine     \* bound: characters of a line

Blank == " "
Quote == "quote"
Equals == "="
Comma == ","

CharacterAssumption ==
  {Blank, Quote, Equals, Comma} \subseteq Characters /\ MaxLine \in Nat

VARIABLES
  line,
  rest,   \* where strtok() goes on
  args,   \* the arguments
  item,   \* env, the token at hand
  envs,   \* envNames and envValues, paired
  prog,
  step    \* "words", "quotes", "items", "item", "prog", "done", "usage" or "crashed"

lineVars == <<line, rest, args, item, envs, prog, step>>

LineInit ==
  /\ line \in UNION {[1 .. n -> Characters] : n \in 0 .. MaxLine}
  /\ rest = line /\ args = <<>> /\ item = <<>> /\ envs = <<>> /\ prog = <<>>
  /\ step = "words"
-----------------------------------------------------------------------------
(***************************************************************************)
(* strtok(): what it skips, the token, and where it goes on.               *)
(***************************************************************************)
NonDelimiters(s, c) == {i \in DOMAIN s : s[i] # c}
HasToken(s, c) == NonDelimiters(s, c) # {}
Smallest(S) == CHOOSE i \in S : \A j \in S : i <= j
From(s, c) == Smallest(NonDelimiters(s, c))
\* The character after the token, a delimiter or the end.
Until(s, c) == Smallest({i \in From(s, c) .. Len(s) : s[i] = c} \cup {Len(s) + 1})
Token(s, c) == SubSeq(s, From(s, c), Until(s, c) - 1)
After(s, c) == SubSeq(s, Until(s, c) + 1, Len(s))

Word ==
  /\ step = "words"
  /\ IF HasToken(rest, Blank)
       THEN /\ args' = Append(args, Token(rest, Blank))
            /\ rest' = After(rest, Blank)
            /\ UNCHANGED step
       ELSE /\ step' = IF args = <<>> THEN "usage" ELSE "quotes"
            /\ UNCHANGED <<args, rest>>
  /\ UNCHANGED <<line, item, envs, prog>>

AfterQuotes(s) == IF \E i \in DOMAIN s : s[i] = Equals THEN "items" ELSE "prog"

\* A quote at the beginning goes, and so does the last character, which is
\* taken for the other quote; if there is none, erase() throws.
Quotes ==
  /\ step = "quotes"
  /\ LET first == args[1]
     IN  IF first[1] # Quote
           THEN step' = AfterQuotes(first) /\ rest' = first /\ UNCHANGED args
           ELSE IF Len(first) = 1
             THEN step' = "crashed" /\ UNCHANGED <<args, rest>>
             ELSE LET bare == SubSeq(first, 2, Len(first) - 1)
                  IN  /\ args' = [args EXCEPT ![1] = bare]
                      /\ rest' = bare
                      /\ step' = AfterQuotes(bare)
  /\ UNCHANGED <<line, item, envs, prog>>

\* The next token of the assignments; after the last one the first argument is
\* left behind.
Item ==
  /\ step = "items"
  /\ IF HasToken(rest, Comma)
       THEN /\ item' = Token(rest, Comma) /\ rest' = After(rest, Comma)
            /\ step' = "item"
            /\ UNCHANGED args
       ELSE /\ args' = Tail(args) /\ step' = "prog"
            /\ UNCHANGED <<item, rest>>
  /\ UNCHANGED <<line, envs, prog>>

EqualsIn(s) == {i \in DOMAIN s : s[i] = Equals}

\* Faulty variant: at the last of them.
SplitAtLast(s) ==
  LET i == CHOOSE j \in EqualsIn(s) : \A k \in EqualsIn(s) : k <= j
  IN  <<SubSeq(s, 1, i - 1), SubSeq(s, i + 1, Len(s))>>

\* At the first equals sign.
Split(s) ==
  LET i == Smallest(EqualsIn(s)) IN <<SubSeq(s, 1, i - 1), SubSeq(s, i + 1, Len(s))>>

\* An item without an equals sign is not left behind: the loop goes on with the
\* same item.
Assign ==
  /\ step = "item"
  /\ IF EqualsIn(item) = {} THEN UNCHANGED <<envs, step>>
     ELSE envs' = Append(envs, Split(item)) /\ step' = "items"
  /\ UNCHANGED <<line, rest, args, item, prog>>

\* The program is the next argument, whether or not there is one.
Program ==
  /\ step = "prog"
  /\ IF args = <<>>
       THEN step' = "crashed" /\ UNCHANGED <<prog, args>>
       ELSE /\ prog' = Head(args) /\ args' = Tail(args)
            /\ step' = "done"
  /\ UNCHANGED <<line, rest, item, envs>>

LineNext == Word \/ Quotes \/ Item \/ Assign \/ Program

LineSpec == LineInit /\ [][LineNext]_lineVars
-----------------------------------------------------------------------------
(***************************************************************************)
(* What a line says: its words, and the assignments in the first one.      *)
(***************************************************************************)
\* Where a run of characters other than c begins and ends.
Starts(s, c) == {i \in DOMAIN s : s[i] # c /\ (i > 1 => s[i - 1] = c)}
Start(s, c, k) ==
  CHOOSE i \in Starts(s, c) : Cardinality({j \in Starts(s, c) : j <= i}) = k
Stop(s, c, i) ==
  CHOOSE j \in i .. Len(s) : (\A k \in i .. j : s[k] # c) /\ (j < Len(s) => s[j + 1] = c)

Runs(s, c) ==
  [k \in 1 .. Cardinality(Starts(s, c)) |->
     SubSeq(s, Start(s, c, k), Stop(s, c, Start(s, c, k)))]

Words == Runs(line, Blank)
Quoted == Words[1][1] = Quote
Plain == IF Quoted THEN SubSeq(Words[1], 2, Len(Words[1]) - 1) ELSE Words[1]
Assigns == \E i \in DOMAIN Plain : Plain[i] = Equals

\* A first word in quotes has both of them; every item of an assignment list is
\* an assignment; and a program is named.
WellFormed ==
  /\ Words # <<>>
  /\ Quoted => Len(Words[1]) > 1 /\ Last(Words[1]) = Quote
  /\ Assigns =>
       /\ \A k \in DOMAIN Runs(Plain, Comma) :
            \E i \in DOMAIN Runs(Plain, Comma)[k] : Runs(Plain, Comma)[k][i] = Equals
       /\ Len(Words) > 1

\* The name is what comes before the first equals sign.
Says(s, pair) ==
  /\ s = pair[1] \o <<Equals>> \o pair[2]
  /\ \A i \in DOMAIN pair[1] : pair[1][i] # Equals

Strings == Seq(Characters)

\* Types; and what strtok() cuts out, arguments and items, is never empty.
LineTypeOK ==
  /\ step \in {"words", "quotes", "items", "item", "prog", "done", "usage", "crashed"}
  /\ {line, rest, item, prog} \subseteq Strings /\ args \in Seq(Strings)
  /\ envs \in Seq(Strings \X Strings)
  /\ step \in {"words", "quotes"} => \A k \in DOMAIN args : args[k] # <<>>
  /\ step = "item" => item # <<>>

\* What is said is taken: each assignment, with its value up to the comma and
\* further equals signs in it, and the program with its arguments.
Taken ==
  IF Assigns
    THEN /\ Len(envs) = Len(Runs(Plain, Comma))
         /\ \A k \in DOMAIN envs : Says(Runs(Plain, Comma)[k], envs[k])
         /\ <<prog>> \o args = Tail(Words)
    ELSE envs = <<>> /\ <<prog>> \o args = <<Plain>> \o Tail(Words)

\* No well-formed line makes exec crash or answer that arguments are missing,
\* and what is taken from it at the end is what it says.
TakenAsWritten ==
  WellFormed => step \notin {"usage", "crashed"} /\ (step = "done" => Taken)

\* exec comes to an end for every well-formed line.
LineEnds == WellFormed ~> step = "done"
=============================================================================
