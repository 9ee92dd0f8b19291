----------------------------- MODULE CommandLine -----------------------------
(***************************************************************************)
(* How the arguments of "daqctl start" reach daqd: daqctl quotes them and  *)
(* joins them to one request (join_args in daqctl.cpp), daqd takes the     *)
(* command off (split_command) and splits the rest again (split_args, in   *)
(* parse_config_from_args_text of daqd.cpp).                               *)
(*                                                                         *)
(* A character stands for its class: a letter, the blank, another white    *)
(* space, the quote and the backslash are all that the code tells apart.   *)
(* There is no state: the properties compare what daqd makes of a request  *)
(* with what daqctl was given.                                             *)
(***************************************************************************)
EXTENDS Naturals, Sequences, SequencesExt

CONSTANTS
  MaxArgs, \* bound: arguments
  MaxChars \* bound: characters of all arguments together

Blank == "blank"
Quote == "quote"
Slash == "backslash"
White == {Blank, "tab"}
Chars == White \union {Quote, Slash, "letter"}

-----------------------------------------------------------------------------
(* daqctl.                                                                 *)

Has(text, chars) == \E i \in DOMAIN text : text[i] \in chars

\* Mutant: only quotes get a backslash.
BugEscaped(char) == IF char = Quote THEN <<Slash, char>> ELSE <<char>>

Escaped(char) == IF char \in {Quote, Slash} THEN <<Slash, char>> ELSE <<char>>

\* quote_arg
QuoteArg(text) ==
  IF Has(text, White \union {Quote, Slash})
  THEN <<Quote>> \o FlattenSeq([i \in DOMAIN text |-> Escaped(text[i])]) \o <<Quote>>
  ELSE text

JoinArgs(list) ==
  FlattenSeq([i \in DOMAIN list |->
    (IF i = 1 THEN <<>> ELSE <<Blank>>) \o QuoteArg(list[i])])

Command == <<"letter">> \* "start", as one character

\* The request daqctl sends.
Request(list) == Command \o (IF list = <<>> THEN <<>> ELSE <<Blank>> \o JoinArgs(list))

-----------------------------------------------------------------------------
(* daqd.                                                                   *)

\* trim
Trim(text) ==
  LET ink == {i \in DOMAIN text : text[i] \notin White}
  IN IF ink = {} THEN <<>> ELSE SubSeq(text, Min(ink), Max(ink))

\* split_command: the part behind the first blank.
SplitCommand(request) ==
  LET t == Trim(request)
      blanks == {i \in DOMAIN t : t[i] = Blank}
  IN IF blanks = {} THEN <<t, <<>>>>
     ELSE <<SubSeq(t, 1, Min(blanks) - 1), Trim(SubSeq(t, Min(blanks) + 1, Len(t)))>>

NewWord(s) == IF s.current = <<>> THEN s
              ELSE [s EXCEPT !.out = Append(@, s.current), !.current = <<>>]

\* Mutant: a white space ends an argument inside quotes, too.
BugReadChar(s, char) ==
  CASE s.escaping      -> [s EXCEPT !.current = Append(@, char), !.escaping = FALSE]
    [] char = Slash /\ ~s.escaping -> [s EXCEPT !.escaping = TRUE]
    [] char = Quote /\ ~s.escaping -> [s EXCEPT !.quoted = ~@]
    [] char \in White /\ ~s.escaping -> NewWord(s)
    [] OTHER -> [s EXCEPT !.current = Append(@, char)]

\* One turn of the loop of split_args.
ReadChar(s, char) ==
  CASE s.escaping      -> [s EXCEPT !.current = Append(@, char), !.escaping = FALSE]
    [] char = Slash /\ ~s.escaping -> [s EXCEPT !.escaping = TRUE]
    [] char = Quote /\ ~s.escaping -> [s EXCEPT !.quoted = ~@]
    [] char \in White /\ ~s.escaping /\ ~s.quoted -> NewWord(s)
    [] OTHER -> [s EXCEPT !.current = Append(@, char)]

\* The loop.
After(s, text) ==
  LET read[k \in 0 .. Len(text)] == IF k = 0 THEN s ELSE ReadChar(read[k - 1], text[k])
  IN read[Len(text)]

\* split_args: the arguments, unless an escape or a quote is left open.
Begin == [out |-> <<>>, current |-> <<>>, quoted |-> FALSE, escaping |-> FALSE]
SplitArgs(text) ==
  LET end == After(Begin, text)
  IN [ok |-> ~end.escaping /\ ~end.quoted, args |-> NewWord(end).out]

-----------------------------------------------------------------------------
\* Texts of a length, and argument vectors of so many characters altogether.
Texts(n)   == [1 .. n -> Chars]
UpTo(n)    == UNION {Texts(k) : k \in 0 .. n}
Vectors    == {list \in UNION {[1 .. k -> UpTo(MaxChars)] : k \in 0 .. MaxArgs} :
                 Len(FlattenSeq(list)) <= MaxChars}

NonEmpty(list) ==
  FlattenSeq([i \in DOMAIN list |-> IF list[i] = <<>> THEN <<>> ELSE <<list[i]>>])

\* daqd splits the request into exactly the arguments daqctl was given; only
\* empty ones are lost (daqctl.cpp:30, daqd.cpp:161).
Arrives(list) ==
  LET parts == SplitCommand(Request(list))
  IN /\ parts[1] = Command
     /\ SplitArgs(parts[2]).ok
     /\ SplitArgs(parts[2]).args = NonEmpty(list)

\* Whatever the arguments hold.
ArgumentsArrive == \A list \in Vectors : Arrives(list)

\* What daqd accepts from any client means the same after another pass through
\* daqctl's quoting: no argument is split, joined or changed by being sent on
\* (daqd.cpp:166).
StaysAsIs(direct) ==
  LET parsed == SplitArgs(SplitCommand(Command \o <<Blank>> \o direct)[2])
  IN parsed.ok => SplitArgs(JoinArgs(parsed.args)) = parsed

AcceptedIsStable == \A direct \in UpTo(MaxChars + 2) : StaysAsIs(direct)
=============================================================================
