---------------------------- MODULE MonitorOptions ----------------------------
(***************************************************************************)
(* What datamon makes of its command line (datamon.cpp), with the registry *)
(* of decoders and analyses it looks them up in (module_registry.cpp) and  *)
(* the options of an analysis (realtime_analysis.cpp), and what command    *)
(* line the web backend writes when a monitor is asked for (app.py), which *)
(* knows the same registry from "datamon --list-modules".                  *)
(*                                                                         *)
(* There is no state: the properties compare the pipeline datamon builds   *)
(* with what the backend says it has started.  Texts are those of Getopt,  *)
(* without blanks around them.                                             *)
(***************************************************************************)
EXTENDS Getopt

CONSTANTS
  Decoders,    \* the names decoders are registered with, in order
  Analyses,    \* analyses as they are registered, in order: [name, expects], the
               \* latter a decoder's name or <<>>
  Intervals,   \* bound: the numbers requests, configurations and options hold
  MaxOptions,  \* bound: settings of one command line
  MaxAnalyses  \* bound: analyses asked for

ASSUME OptionsAssumption ==
  /\ Intervals \subseteq Ints /\ MaxOptions \in Nat /\ MaxAnalyses \in Nat /\ {1, 1000} \subseteq Ints
  /\ Decoders \in Seq(Range(Decoders)) /\ Analyses \in Seq(Range(Analyses))
  /\ \A name \in Range(Decoders) \union {Analyses[i].name : i \in DOMAIN Analyses} :
       name # <<>> /\ name \in Seq(Range(name)) /\ "=" \notin Range(name)

-----------------------------------------------------------------------------
(* The registry.                                                           *)

\* A second module of a name is not registered.
Registered(modules) ==
  {i \in DOMAIN modules : \A j \in 1 .. i - 1 : modules[j].name # modules[i].name}

\* Analyses are only there in a build with ROOT.
Analysis(root)         == IF root THEN Analyses ELSE <<>>
Decoder                == [i \in DOMAIN Decoders |-> [name |-> Decoders[i]]]
Names(modules)         == {modules[i].name : i \in Registered(modules)}
FindIn(modules, name)  == modules[CHOOSE i \in Registered(modules) : modules[i].name = name]

-----------------------------------------------------------------------------
(* The options of an analysis: "key=value,key=value".                      *)

\* The parts of a text between commas, by where they begin, which is at 0 or at a
\* comma.
Cuts(text)        == {0, Len(text) + 1} \union Places(text, ",")
Token(text, from) == SubSeq(text, from + 1, Min({c \in Cuts(text) : c > from}) - 1)

\* ParseKeyValueSpec: empty parts do not matter, others need a key and a value.
KeyValues(text) ==
  [from \in {c \in Cuts(text) : c <= Len(text) /\ Token(text, c) # <<>>} |-> Token(text, from)]
IsKeyValueSpec(text) ==
  \A i \in DOMAIN KeyValues(text) :
    <<>> \notin {BeforeEqual(KeyValues(text)[i]), AfterEqual(KeyValues(text)[i])}

\* ReadSize: the last value counts, and all must be numbers.
ReadSize(text, key, default) ==
  LET values == {i \in DOMAIN KeyValues(text) : BeforeEqual(KeyValues(text)[i]) = <<key>>}
      Value(i) == Unsigned(AfterEqual(KeyValues(text)[i]))
  IN CASE values = {} -> default
       [] \E i \in values : Value(i) = NaN -> NaN
       [] OTHER -> Value(Max(values))

\* Mutant: a trend of no points is taken.
BugTrendPoints(text) ==
  IF (\A i \in DOMAIN KeyValues(text) : BeforeEqual(KeyValues(text)[i]) = <<"trend_points">>)
  THEN ReadSize(text, "trend_points", 1000) ELSE NaN

\* parse_overview_spec, of the one analysis there is; NaN where it refuses.
TrendPoints(text) ==
  IF /\ ReadSize(text, "trend_points", 1000) >= 1
     /\ \A i \in DOMAIN KeyValues(text) : BeforeEqual(KeyValues(text)[i]) = <<"trend_points">>
  THEN ReadSize(text, "trend_points", 1000) ELSE NaN

-----------------------------------------------------------------------------
(* parse_args.                                                             *)

Number64 == {"--max-events", "--print-every"}
Number32 == {"--Run-start", "--poll-ms", "--idle-timeout-sec", "--snapshot-interval-ms"}
Positive == {"--print-every", "--poll-ms", "--snapshot-interval-ms"}
Paths    == {"--live-output-dir", "--data-endpoint", "--decoder", "--text-output", "--root-out",
             "--snapshot-dir", "--snapshot-select-endpoint"}
Switches == {"--text-stream", "--no-console", "--no-gui", "--list-modules", "--json"}

Valued == Number64 \union Number32 \union Paths \union {"--analysis"}
Flags  == Switches \union {"--help", "-h"}

\* struct Options
DefaultNumber == [o \in Number64 \union Number32 |->
  CASE o \in {"--print-every", "--snapshot-interval-ms"} -> 1000
    [] o = "--poll-ms" -> 200
    [] OTHER -> 0]
DefaultOptions ==
  [number |-> DefaultNumber, on |-> {}, analyses |-> <<>>, input_file |-> <<>>,
   path |-> [o \in Paths |-> IF o = "--decoder" THEN <<"kc705_tof">> ELSE <<>>]]

TakeOption(s, setting) ==
  LET option == setting[1]
      text   == setting[2]
  IN
  IF s.outcome # "ok" THEN s
  ELSE
  CASE option \in Paths      -> [s EXCEPT !.options.path[option] = text]
    [] option = "--analysis" -> [s EXCEPT !.options.analyses = Append(@, text)]
    [] option \in Switches   -> [s EXCEPT !.options.on = @ \union {option}]
    [] option \in {"--help", "-h"} -> [s EXCEPT !.outcome = "exit"]
    [] OTHER ->
         LET n == IF option \in Number64 THEN Unsigned(text) ELSE UInt32(text)
         IN IF n = NaN \/ (option \in Positive /\ n = 0) THEN [s EXCEPT !.outcome = "refused"]
            ELSE [s EXCEPT !.options.number[option] = n]

\* The sources a command line names, with their texts.
Given(o) ==
  {source \in {<<"file", o.input_file>>, <<"live", o.path["--live-output-dir"]>>,
               <<"data", o.path["--data-endpoint"]>>} : source[2] # <<>>}

\* Without a source it is the endpoint of daqd.
WithSource(o) ==
  IF Given(o) = {} THEN [o EXCEPT !.path["--data-endpoint"] = <<"default">>] ELSE o

\* A file that nobody shows, and a text output without text.
Useless(o) ==
  \/ /\ o.input_file # <<>> /\ o.path["--root-out"] = <<>> /\ o.analyses = <<>>
     /\ "--no-console" \in o.on /\ "--text-stream" \notin o.on
  \/ o.path["--text-output"] # <<>> /\ "--text-stream" \notin o.on

Settled(settings) ==
  LET taken[k \in 0 .. Len(settings)] ==
        IF k = 0 THEN [outcome |-> "ok", options |-> DefaultOptions]
        ELSE TakeOption(taken[k - 1], settings[k])
  IN taken[Len(settings)]
WithFile(o, rest) == [o EXCEPT !.input_file = IF rest = <<>> THEN <<>> ELSE Last(rest)]

\* One file may stand behind the options.
Misread(scan) ==
  \/ ~scan.whole \/ Len(scan.rest) > 1
  \/ \E i \in DOMAIN scan.rest : scan.rest[i] = <<>> \/ Dashed(scan.rest[i], Valued \union Flags)

\* Mutant: any number of sources.
BugSenseless(o) == "--list-modules" \notin o.on /\ Useless(o)

\* One source, and something to do.
Senseless(o) == (\E a, b \in Given(o) : a # b) \/ ("--list-modules" \notin o.on /\ Useless(o))

\* What was read to the end must also make sense together.
Judged(s, scan) ==
  [outcome |-> IF s.outcome = "ok" /\ (Misread(scan) \/ Senseless(s.options)) THEN "refused" ELSE s.outcome,
   options |-> WithSource(s.options)]

Parsed(scan) ==
  Judged([outcome |-> Settled(scan.settings).outcome,
          options |-> WithFile(Settled(scan.settings).options, scan.rest)], scan)
ParseArgs(list) == Parsed(Scan(list, Valued, Flags))

-----------------------------------------------------------------------------
(* main.                                                                   *)

\* In the order in which they take messages.
Sinks(o) ==
  (IF "--no-console" \in o.on THEN <<>> ELSE <<"console">>)
  \o (IF "--text-stream" \in o.on THEN <<"text">> ELSE <<>>)
  \o (IF o.path["--root-out"] # <<>> THEN <<"root">> ELSE <<>>)
  \o (IF o.analyses # <<>> THEN <<"analyses">> ELSE <<>>)

\* The decoder is there, and without options; it has none.
DecoderFits(o) == BeforeEqual(o.path["--decoder"]) \in Names(Decoder)
                  /\ AfterEqual(o.path["--decoder"]) = <<>>

\* The analysis is there, for this decoder, and takes its options.
AnalysisFits(root, o, text) ==
  /\ BeforeEqual(text) \in Names(Analysis(root))
  /\ FindIn(Analysis(root), BeforeEqual(text)).expects \in {<<>>, BeforeEqual(o.path["--decoder"])}
  /\ IsKeyValueSpec(AfterEqual(text)) /\ TrendPoints(AfterEqual(text)) # NaN

\* Mutant: an analysis takes any decoder.
BugFits(root, o) ==
  /\ DecoderFits(o) /\ Sinks(o) # <<>> /\ (o.path["--root-out"] # <<>> => root)
  /\ \A i \in DOMAIN o.analyses :
       /\ BeforeEqual(o.analyses[i]) \in Names(Analysis(root))
       /\ IsKeyValueSpec(AfterEqual(o.analyses[i])) /\ TrendPoints(AfterEqual(o.analyses[i])) # NaN

Fits(root, o) ==
  /\ DecoderFits(o) /\ Sinks(o) # <<>> /\ (o.path["--root-out"] # <<>> => root)
  /\ \A i \in DOMAIN o.analyses : AnalysisFits(root, o, o.analyses[i])

\* The options of the pipeline that a command line gives.
Built(root, s) ==
  CASE s.outcome # "ok" -> s
    [] s.outcome = "ok" /\ "--list-modules" \in s.options.on -> [s EXCEPT !.outcome = "listed"]
    [] s.outcome = "ok" /\ "--list-modules" \notin s.options.on /\ Fits(root, s.options) -> s
    [] OTHER -> [s EXCEPT !.outcome = "refused"]
Datamon(root, list) == Built(root, ParseArgs(list))

-----------------------------------------------------------------------------
(* The backend.  What may be missing is a sequence of one or none.         *)

Asked(req, config) == IF req.analyses # <<>> THEN req.analyses[1] ELSE config.analyses

\* The decoders that the analyses asked for want.
Required(root, names) ==
  {FindIn(Analysis(root), names[i]).expects : i \in DOMAIN names} \ {<<>>}

\* Mutant: the decoder is the one asked for, whatever the analyses want.
BugChosenDecoder(root, req, config) ==
  IF req.decoder # <<>> THEN req.decoder[1] ELSE config.decoder

\* That of the analyses wins over the one asked for.
ChosenDecoder(root, req, config) ==
  LET required == Required(root, Asked(req, config))
  IN CASE required # {} -> CHOOSE d \in required : TRUE
       [] required = {} /\ req.decoder # <<>> -> req.decoder[1]
       [] OTHER -> config.decoder

Accepted(root, req, config) ==
  /\ Range(Asked(req, config)) \subseteq Names(Analysis(root))
  /\ \A a, b \in Required(root, Asked(req, config)) : a = b
  /\ ChosenDecoder(root, req, config) \in Names(Decoder)

\* What is given in seconds is 1 ms at least; the configured milliseconds are
\* taken as they are.
Interval(req, config) ==
  CASE req.interval # <<>> -> Max({1, req.interval[1]})
    [] req.interval = <<>> /\ config.sec # <<>> -> Max({1, config.sec[1]})
    [] req.interval = <<>> /\ config.sec = <<>> /\ config.ms # <<>> -> config.ms[1]
    [] OTHER -> 1000

Valuing(option, text)    == <<<<option>>, text>>
Optional(option, number) == IF number = <<>> THEN <<>> ELSE Valuing(option, Numeral(number[1]))

\* _datamon_base_args and start_datamon
MonitorArgs(root, req, config) ==
  Valuing("--data-endpoint", <<"endpoint">>)
  \o Optional("--poll-ms", config.poll) \o Optional("--idle-timeout-sec", config.idle)
  \o Valuing("--decoder", ChosenDecoder(root, req, config))
  \o <<<<"--text-stream">>>> \o <<<<"--no-gui">>>>
  \o Valuing("--snapshot-dir", <<"dir">>)
  \o Valuing("--snapshot-interval-ms", Numeral(Interval(req, config)))
  \o Valuing("--snapshot-select-endpoint", <<"select">>)
  \o FlattenSeq([i \in DOMAIN Asked(req, config) |-> Valuing("--analysis", Asked(req, config)[i])])

-----------------------------------------------------------------------------
(* Properties.                                                             *)

Maybe(values) == {<<>>} \union {<<v>> : v \in values}
AllNames      == Range(Decoders) \union {Analyses[i].name : i \in DOMAIN Analyses} \union {<<"other">>}
Lists         == UNION {[1 .. k -> AllNames] : k \in 0 .. MaxAnalyses}

\* Requests and configurations that vary what is monitored, or the numbers.
Request(decoder, analyses, interval) ==
  [decoder |-> decoder, analyses |-> analyses, interval |-> interval]
Config(decoder, analyses, sec, ms, poll, idle) ==
  [decoder |-> decoder, analyses |-> analyses, sec |-> sec, ms |-> ms, poll |-> poll, idle |-> idle]
Pairs ==
  {<<Request(d, a, <<>>), Config(d2, a2, <<>>, <<>>, <<>>, <<>>)>> :
     d \in Maybe(AllNames), a \in Maybe(Lists), d2 \in AllNames, a2 \in {<<>>, <<Analyses[1].name>>}}
  \union {<<Request(<<>>, <<>>, i), Config(Decoders[1], <<>>, s, m, p, t)>> :
     i \in Maybe(Intervals \intersect Nat), s \in Maybe(Intervals), m \in Maybe(Intervals),
     p \in Maybe(Intervals), t \in Maybe(Intervals)}

\* The numbers that reach datamon as they are.
Sane(req, config) ==
  /\ Interval(req, config) \in 1 .. MaxU32
  /\ Range(config.poll) \subseteq 1 .. MaxU32 /\ Range(config.idle) \subseteq 0 .. MaxU32

\* A monitor that the backend starts decodes and analyses what the backend shows
\* from then on, from the daemon's endpoint and without a window, though the
\* decoder is chosen in one program and checked against the analyses in the
\* other; and it starts, unless a number in the web configuration is none it
\* takes (app.py:742 to 824, datamon.cpp:366 to 498).
IsAsShown(root, req, config) ==
  LET run == Datamon(root, MonitorArgs(root, req, config))
      o   == run.options
  IN /\ Sane(req, config) => run.outcome = "ok"
     /\ run.outcome \in {"ok", "refused"}
     /\ run.outcome = "ok" =>
          /\ o.path["--decoder"] = ChosenDecoder(root, req, config)
          /\ o.analyses = Asked(req, config)
          /\ Given(o) = {<<"data", <<"endpoint">>>>} /\ "--no-gui" \in o.on
          /\ Sane(req, config) => o.number["--snapshot-interval-ms"] = Interval(req, config)

\* Whatever is asked for and configured.
MonitorIsAsShown ==
  \A root \in BOOLEAN, pair \in Pairs :
    Accepted(root, pair[1], pair[2]) => IsAsShown(root, pair[1], pair[2])

Settings ==
  {<<<<o>>, Numeral(n)>> : o \in {"--print-every", "--poll-ms"}, n \in Intervals}
  \union {<<<<o>>, text>> : o \in {"--live-output-dir", "--data-endpoint", "--text-output", "--root-out"},
                            text \in {<<>>, <<"text">>}}
  \union {<<<<"--decoder">>, d>> : d \in AllNames \union {Decoders[1] \o <<"=", "1">>}}
  \union {<<<<"--analysis">>, Analyses[1].name \o <<"=">> \o spec>> :
            spec \in {<<>>, <<"trend_points">>, <<"trend_points", "=", "0">>,
                      <<"trend_points", "=", "0", ",", "trend_points", "=", "1">>,
                      <<"other", "=", "1">>, <<",">>}}
  \union {<<<<word>>>> : word \in {"--text-stream", "--no-console", "--list-modules", "-h", "--", "text"}}
MonitorLines == {FlattenSeq(list) : list \in UNION {[1 .. k -> Settings] : k \in 0 .. MaxOptions}}

\* A pipeline that datamon builds has one source and a sink, text goes somewhere
\* only if there is text, no interval is 0, and every analysis can read what the
\* decoder hands it and keeps a trend (datamon.cpp:298 to 331 and 455 to 496).
Works(run) ==
  LET o == run.options
  IN run.outcome = "ok" =>
       /\ (\E source \in Given(o) : Given(o) = {source}) /\ Sinks(o) # <<>>
       /\ o.path["--text-output"] # <<>> => "text" \in Range(Sinks(o))
       /\ \A option \in Positive : o.number[option] >= 1
       /\ \A i \in DOMAIN o.analyses :
            /\ \A j \in DOMAIN Analyses :
                 Analyses[j].name = BeforeEqual(o.analyses[i])
                 /\ (\A k \in 1 .. j - 1 : Analyses[k].name # Analyses[j].name)
                   => Analyses[j].expects \in {<<>>, BeforeEqual(o.path["--decoder"])}
            /\ TrendPoints(AfterEqual(o.analyses[i])) >= 1

\* Whatever datamon is called with.
PipelineIsSane == \A root \in BOOLEAN, list \in MonitorLines : Works(Datamon(root, list))
=============================================================================
