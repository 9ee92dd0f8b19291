----------------------------- MODULE StartRequest -----------------------------
(***************************************************************************)
(* How the form of the web page becomes the configuration of a run: the    *)
(* backend checks it and writes an argument vector (start_daq in app.py),  *)
(* daqctl sends that on, which CommandLine models, and daqd parses it      *)
(* (ParseDaqArgs, and ParseDeviceSpec of the KC705 frontend).              *)
(*                                                                         *)
(* There is no state.  Wanted says what a form asks for, with no argument  *)
(* vector in between; the properties compare.                              *)
(***************************************************************************)
EXTENDS Getopt, CommandLine

CONSTANTS
  Numbers,     \* bound: the numbers forms and configurations hold
  Words,       \* bound: the texts they hold, some of which look like options
  MaxSettings  \* bound: settings of one command line

\* The largest TCP port.
MaxPort == 65535

ASSUME RequestAssumption ==
  /\ Numbers \subseteq Ints /\ {0, 7, 1, MaxPort} \subseteq Ints /\ MaxPort <= MaxU32
  /\ \A word \in Words : word \in Seq(Range(word))
  /\ MaxSettings \in Nat

\* The options with numbers, in the order in which the backend writes them.
Numeric == <<"--events-per-file", "--reconnect-ms", "--read-timeout-ms", "--duration-sec",
             "--startup-connect-timeout-sec", "--reconnect-failure-timeout-sec">>
Options == Range(Numeric)
Partial == "--allow-partial-run-on-runtime-disconnect"
Valued  == Options \union {"--output-dir", "--device", "--Run-start", "--comment"}
Flags   == {Partial, "--help", "-h"}

-----------------------------------------------------------------------------
(* daqd.                                                                   *)

NoDevice == [board |-> NaN, host |-> <<>>, port |-> NaN]

\* Mutant: port 0 is a port.
BugParseDeviceSpec(text) ==
  IF Places(text, "@") = {} \/ Places(text, ":") = {} THEN NoDevice
  ELSE LET at    == Min(Places(text, "@"))
           colon == Max(Places(text, ":"))
           board == UInt32(SubSeq(text, 1, at - 1))
           port  == UInt32(SubSeq(text, colon + 1, Len(text)))
       IN IF colon > at + 1 /\ board \in 0 .. 7 /\ port \in 0 .. MaxPort
          THEN [board |-> board, host |-> SubSeq(text, at + 1, colon - 1), port |-> port]
          ELSE NoDevice

\* ParseDeviceSpec: up to the first "@", and behind the last ":".
ParseDeviceSpec(text) ==
  IF Places(text, "@") = {} \/ Places(text, ":") = {} THEN NoDevice
  ELSE LET at    == Min(Places(text, "@"))
           colon == Max(Places(text, ":"))
           board == UInt32(SubSeq(text, 1, at - 1))
           port  == UInt32(SubSeq(text, colon + 1, Len(text)))
       IN IF colon > at + 1 /\ board \in 0 .. 7 /\ port \in 1 .. MaxPort
          THEN [board |-> board, host |-> SubSeq(text, at + 1, colon - 1), port |-> port]
          ELSE NoDevice

Frontends == {<<"kc705_tof">>}

\* DaqConfig as it begins; a duration of 0 is none.
Default(option) == IF option = "--duration-sec" THEN 0 ELSE 1
DaqConfig ==
  [output_dir |-> <<>>, devices |-> <<>>, comment |-> <<>>, partial |-> FALSE,
   run_start |-> NaN, number |-> [o \in Options |-> Default(o)]]

Refused(s) == [s EXCEPT !.outcome = "refused"]

\* One option, unless one before it was refused; -h ends the process, and that is
\* daqd.
TakeOption(s, setting) ==
  LET option == setting[1]
      text   == setting[2]
  IN
  IF s.outcome # "ok" THEN s
  ELSE
  CASE option = "--output-dir" -> [s EXCEPT !.cfg.output_dir = text]
    [] option = "--comment"    -> [s EXCEPT !.cfg.comment = text]
    [] option = Partial        -> [s EXCEPT !.cfg.partial = TRUE]
    [] option \in {"--help", "-h"} -> [s EXCEPT !.outcome = "exit"]
    [] option = "--Run-start" ->
         IF UInt32(text) = NaN THEN Refused(s) ELSE [s EXCEPT !.cfg.run_start = UInt32(text)]
    [] option \in Options ->
         IF UInt32(text) < 1 THEN Refused(s) ELSE [s EXCEPT !.cfg.number[option] = UInt32(text)]
    [] option = "--device" ->
         LET device == ParseDeviceSpec(AfterEqual(text))
         IN IF BeforeEqual(text) \in Frontends /\ device # NoDevice
            THEN [s EXCEPT !.cfg.devices = Append(@, device)] ELSE Refused(s)

\* All that were read.
TakeOptions(settings) ==
  LET taken[k \in 0 .. Len(settings)] ==
        IF k = 0 THEN [outcome |-> "ok", cfg |-> DaqConfig]
        ELSE TakeOption(taken[k - 1], settings[k])
  IN taken[Len(settings)]

\* Mutant: the output directory may be missing.
BugParseDaqArgs(list) ==
  LET scan == Scan(list, Valued, Flags)
      s    == TakeOptions(scan.settings)
  IN IF s.outcome = "ok" /\ (~scan.whole \/ scan.rest # <<>> \/ s.cfg.devices = <<>>)
     THEN Refused(s) ELSE s

ParseDaqArgs(list) ==
  LET scan == Scan(list, Valued, Flags)
      s    == TakeOptions(scan.settings)
  IN IF s.outcome = "ok" /\ (~scan.whole \/ scan.rest # <<>> \/ <<>> \in {s.cfg.output_dir, s.cfg.devices})
     THEN Refused(s) ELSE s

-----------------------------------------------------------------------------
(* daqctl.                                                                 *)

\* Help that is asked for first is given on the spot; else the arguments arrive,
\* but for empty ones (ArgumentsArrive of CommandLine).
HelpsItself(list) == list # <<>> /\ list[1] \in {<<"--help">>, <<"-h">>}
Arriving(list)    == NonEmpty(list)

-----------------------------------------------------------------------------
(* The backend.  What may be missing is a sequence of one or none.         *)

Maybe(values)         == {<<>>} \union {<<v>> : v \in values}
Given(first, second)  == IF first # <<>> THEN first ELSE second

Hosts  == {<<"host">>, <<"a", ":", "b">>, <<>>}
IPv4   == {<<"host">>}
Device == [frontend : Frontends \union {<<"other">>}, board : {-1, 0, 7, 8}, host : Hosts,
           port : {0, 1, MaxPort, MaxPort + 1}]

\* Mutant: the schema allows port 0.
BugSchema == [board |-> [type |-> "integer", min |-> 0, max |-> 7],
              host |-> [type |-> "ipv4"],
              port |-> [type |-> "integer", min |-> 0, max |-> MaxPort]]

\* What the KC705 frontend says of its fields, and the frontends command of
\* daqd hands on.
Schema == [board |-> [type |-> "integer", min |-> 0, max |-> 7],
           host |-> [type |-> "ipv4"],
           port |-> [type |-> "integer", min |-> 1, max |-> MaxPort]]

\* _validate_device_value
ValidValue(field, value) ==
  IF field.type = "integer" THEN value \in field.min .. field.max ELSE value \in IPv4

ValidDevice(d) ==
  d.frontend \in Frontends /\ \A name \in DOMAIN Schema : ValidValue(Schema[name], d[name])

\* _build_device_spec fills "{board_id}@{host}:{port}".
BuildDeviceSpec(d) == Numeral(d.board) \o <<"@">> \o d.host \o <<":">> \o Numeral(d.port)

\* Refused with 400 or 422: StartRequest bounds what it is given from below.
Accepted(form) ==
  /\ form.devices # <<>> /\ \A i \in DOMAIN form.devices : ValidDevice(form.devices[i])
  /\ \A o \in Options : form.number[o] = <<>> \/ form.number[o][1] >= 1

\* Some numbers have a default in the web configuration, which is not bounded.
Configured == {"--events-per-file", "--startup-connect-timeout-sec",
               "--reconnect-failure-timeout-sec"}
Number(form, config, o) ==
  Given(form.number[o], IF o \in Configured THEN config.number ELSE <<>>)

\* Whatever is empty is not given, and the comment of an empty form is the
\* configured one; only a comment that is sent empty stays empty.
OutputDir(form, config) == Given(form.output_dir, config.output_dir)
Comment(form, config)   == LET comment == Given(form.comment, config.comment)
                           IN IF comment = <<>> THEN <<>> ELSE comment[1]
IsPartial(form, config) == Given(form.partial, <<config.partial>>)[1]

\* Mutant: a comment is sent whenever there is one, also an empty one.
BugCommentArgs(form, config) ==
  IF Given(form.comment, config.comment) = <<>> THEN <<>>
  ELSE <<<<"--comment">>, Comment(form, config)>>

CommentArgs(form, config) ==
  IF Comment(form, config) = <<>> THEN <<>> ELSE <<<<"--comment">>, Comment(form, config)>>

DeviceArgs(form) ==
  FlattenSeq([i \in DOMAIN form.devices |->
    LET d == form.devices[i]
    IN <<<<"--device">>, d.frontend \o <<"=">> \o BuildDeviceSpec(d)>>])

NumberArgs(form, config) ==
  FlattenSeq([i \in DOMAIN Numeric |->
    LET n == Number(form, config, Numeric[i])
    IN IF n = <<>> THEN <<>> ELSE <<<<Numeric[i]>>, Numeral(n[1])>>])

PartialArgs(form, config) == IF IsPartial(form, config) THEN <<<<Partial>>>> ELSE <<>>

\* start_daq: the arguments behind "start".
StartArgs(form, config) ==
  <<<<"--output-dir">>, OutputDir(form, config)>> \o DeviceArgs(form)
  \o NumberArgs(form, config) \o PartialArgs(form, config) \o CommentArgs(form, config)

-----------------------------------------------------------------------------
(* Properties.                                                             *)

\* Forms that vary the texts and the switch, a second device, or a number;
\* configurations; and settings as they may stand on a command line.
OneDevice == [frontend |-> <<"kc705_tof">>, board |-> 0, host |-> <<"host">>, port |-> 1]
Plain     == [output_dir |-> <<"text">>, devices |-> <<OneDevice>>, partial |-> <<>>,
              number |-> [o \in Options |-> <<>>], comment |-> <<>>]
Entries   == Words \union {<<>>}
FormWith(dir, comment, partial) ==
  [Plain EXCEPT !.output_dir = dir, !.comment = comment, !.partial = partial]
Forms ==
  {FormWith(dir, comment, partial) :
     dir \in Entries, comment \in Maybe(Entries), partial \in Maybe(BOOLEAN)}
  \union {[Plain EXCEPT !.devices = <<OneDevice, d>>] : d \in Device}
  \union {[Plain EXCEPT !.number[o] = <<n>>] : o \in Options, n \in Numbers}
Configs ==
  [output_dir : Entries, number : Maybe(Numbers), comment : Maybe(Entries), partial : BOOLEAN]

\* The configuration a form asks for.
Wanted(form, config) ==
  [output_dir |-> OutputDir(form, config), comment |-> Comment(form, config),
   partial |-> IsPartial(form, config), run_start |-> NaN,
   devices |-> [i \in DOMAIN form.devices |->
                  [board |-> form.devices[i].board, host |-> form.devices[i].host,
                   port |-> form.devices[i].port]],
   number |-> [o \in Options |->
                 LET n == Number(form, config, o) IN IF n = <<>> THEN Default(o) ELSE n[1]]]

\* A request the backend accepts gives daqd exactly the configuration that the
\* form and the web configuration ask for or is refused; never another one, and
\* never daqd's help, which ends it.  It is refused only if the output directory
\* is empty or a configured number is none that daqd has (app.py:1149,
\* daq_cli.cpp:66).  (A configured number so far below 0 that std::stoul wraps it
\* to a small one is taken for that.)
TakenAsWanted(form, config) ==
  LET args == StartArgs(form, config)
      s    == ParseDaqArgs(Arriving(args))
      want == Wanted(form, config)
  IN /\ ~HelpsItself(args) /\ s.outcome # "exit"
     /\ s.outcome = "ok" /\ (\A o \in Options : want.number[o] > MaxU32 - ULongs)
          => s.cfg = want
     /\ want.output_dir # <<>> /\ (\A o \in Options : want.number[o] \in Default(o) .. MaxU32)
          => s.outcome = "ok"

\* Whatever texts, numbers and devices they hold.
FormArrives ==
  \A form \in Forms, config \in Configs : Accepted(form) => TakenAsWanted(form, config)

Settings ==
  {<<<<o>>, text>> : o \in {"--output-dir", "--comment"}, text \in Entries}
  \union {<<<<o>>, Numeral(n)>> : o \in {"--events-per-file", "--Run-start"}, n \in Numbers}
  \union {<<<<"--device">>, <<"kc705_tof", "=">> \o spec>> :
            spec \in {<<"1", "@", "a", ":", "b", ":", "1">>, <<"0", "@", "host", ":", "0">>}}
  \union {<<<<flag>>>> : flag \in {Partial, "--help", "--", "text"}}
CommandLines == {FlattenSeq(list) : list \in UNION {[1 .. k -> Settings] : k \in 0 .. MaxSettings}}

\* What daqd accepts is a configuration that DaqService and DaqRuntime can have:
\* a directory, devices with an address, and no number below 1 but a missing
\* duration (daq_cli.cpp:86, 206).
Sane(s) ==
  s.outcome = "ok" =>
    /\ s.cfg.output_dir # <<>> /\ s.cfg.devices # <<>>
    /\ \A i \in DOMAIN s.cfg.devices :
         /\ s.cfg.devices[i].board \in 0 .. 7 /\ s.cfg.devices[i].host # <<>>
         /\ s.cfg.devices[i].port \in 1 .. MaxPort
    /\ \A o \in Options : s.cfg.number[o] \in Default(o) .. MaxU32

\* Whatever daqctl is called with, also when empty values get lost and options
\* take others for their values.
AcceptedIsSane == \A list \in CommandLines : Sane(ParseDaqArgs(Arriving(list)))
=============================================================================
