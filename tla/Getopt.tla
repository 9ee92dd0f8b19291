-------------------------------- MODULE Getopt --------------------------------
(***************************************************************************)
(* What the programs of this project rely on when they parse their command *)
(* lines: getopt_long of the C library, as daq_cli.cpp and datamon.cpp     *)
(* call it, and the numbers std::stoul and std::stoull read.               *)
(*                                                                         *)
(* A text is a sequence of words and of the separators that the programs   *)
(* look for, so <<"kc705_tof", "=", "1", "@">> is one argument.  Long      *)
(* options are not abbreviated, and their values are arguments of their    *)
(* own.                                                                    *)
(***************************************************************************)
EXTENDS Integers, Sequences, SequencesExt, TLC

CONSTANTS
  Ints,   \* bound: the integers that texts spell
  MaxU32, \* the largest uint32_t, scaled to numbers TLC has
  ULongs  \* the number of values of unsigned long, scaled likewise

ASSUME GetoptAssumption ==
  /\ Ints \subseteq Int
  /\ MaxU32 \in Nat /\ ULongs \in Nat /\ ULongs > MaxU32

\* A number as a program prints it.
Numeral(n) == <<ToString(n)>>
Spelled    == [text \in {Numeral(n) : n \in Ints} |-> CHOOSE n \in Ints : Numeral(n) = text]

\* The digits of a number are those of no other, and neither an option nor one of
\* the separators.
ASSUME NumeralAssumption ==
  \A n \in Ints :
    /\ \A m \in Ints : ToString(m) = ToString(n) => m = n
    /\ ToString(n) \notin {"=", "@", ":", ",", "--", "-?"}

\* What an unsigned parser answers to a text that is no number for it.
NaN == -1

\* std::stoul takes a sign, too, and wraps; it must have read the whole text.
Unsigned(text) ==
  IF text \notin DOMAIN Spelled \/ Spelled[text] \notin 1 - ULongs .. ULongs - 1 THEN NaN
  ELSE Spelled[text] % ULongs

UInt32(text) == IF Unsigned(text) > MaxU32 THEN NaN ELSE Unsigned(text)

-----------------------------------------------------------------------------
Places(text, separator) == {i \in DOMAIN text : text[i] = separator}

\* A text up to its first "=", and what follows.
BeforeEqual(text) ==
  IF Places(text, "=") = {} THEN text ELSE SubSeq(text, 1, Min(Places(text, "=")) - 1)
AfterEqual(text) ==
  IF Places(text, "=") = {} THEN <<>>
  ELSE SubSeq(text, Min(Places(text, "=")) + 1, Len(text))

-----------------------------------------------------------------------------
\* What begins with a dash.
Dashed(text, options) ==
  text # <<>> /\ (text[1] \in {"--", "-?"} \union options \/ text \in {Numeral(n) : n \in Ints \ Nat})

\* One argument: s.option is the option that waits for its value, s.ended says
\* whether "--" was read.
NoOption == "none"
Fresh    == [settings |-> <<>>, whole |-> TRUE, option |-> NoOption, ended |-> FALSE, rest |-> <<>>]
ReadArg(s, text, valued, flags) ==
  CASE ~s.whole -> s
    [] s.whole /\ s.option # NoOption ->
         [s EXCEPT !.settings = Append(@, <<s.option, text>>), !.option = NoOption]
    [] s.whole /\ s.option = NoOption /\ (s.ended \/ ~Dashed(text, valued \union flags)) ->
         [s EXCEPT !.rest = Append(@, text)]
    [] OTHER ->
         CASE text = <<"--">>     -> [s EXCEPT !.ended = TRUE]
           [] text[1] \in valued  -> [s EXCEPT !.option = text[1]]
           [] text[1] \in flags   -> [s EXCEPT !.settings = Append(@, <<text[1], <<>>>>)]
           [] OTHER -> [s EXCEPT !.whole = FALSE]

\* All of them.
ReadArgs(list, valued, flags) ==
  LET read[k \in 0 .. Len(list)] ==
        IF k = 0 THEN Fresh ELSE ReadArg(read[k - 1], list[k], valued, flags)
  IN read[Len(list)]

\* The options among list as <<option, value>>, in order, those of valued with the
\* argument behind them, whatever it looks like, those of flags with <<>>; up to
\* the first that is none of them, or has no value, and then not whole.  The rest
\* are the other arguments.
Scan(list, valued, flags) ==
  LET end == ReadArgs(list, valued, flags)
  IN  [settings |-> end.settings, whole |-> end.whole /\ end.option = NoOption, rest |-> end.rest]
=============================================================================
