------------------------------- MODULE SsiConfig -------------------------------
(***************************************************************************)
(* The configuration of the XRootD SSI protocol-buffer framework and what  *)
(* its services make of it: XrdSsiPb::Config (XrdSsiPbConfig.hpp), the log *)
(* mask of XrdSsiPb::Log (XrdSsiPbLog.hpp), the configuration part of the  *)
(* ServiceClientSide constructor, and the Init() of the test and of the    *)
(* CTA service providers.                                                  *)
(*                                                                         *)
(* A string is a sequence of atoms: the blank, ".", "#" and words such as  *)
(* "log" or "info", so that "log.hiRes" is <<"log", ".", "hiRes">>.  The   *)
(* tokenizing, the comment stripping and the namespace rules work on these *)
(* sequences as the code does on characters.                               *)
(***************************************************************************)
EXTENDS Naturals, Sequences, SequencesExt, TLC

CONSTANTS
  NsArgs,     \* namespaces given to Config(filename, ns) and setNamespace()
  KeyArgs,    \* keys given to set()
  ValueArgs,  \* values given to set()
  Files,      \* configuration files: sequences of lines
  EnvValues,  \* values of the environment variable XrdSsiPbLogLevel
  MaxCalls,   \* the most calls of a run
  NoEnv       \* getenv() returns nullptr: XrdSsiPbLogLevel is not set

\* The constants are meant to satisfy:
\*   MaxCalls \in Nat

Blank == " "
Dot == "."
Hash == "#"

\* The log level bits: the low-order ones belong to the XRootD framework.
LowBits == {"XRD_LOGIN", "XRD_DISC"}
OurBits == {"ERROR", "WARNING", "INFO", "DEBUG", "PROTOBUF", "PROTORAW"}

\* The option map of SetLogLevel().
LevelOption ==
  [none |-> {}, error |-> {"ERROR"}, warning |-> {"ERROR", "WARNING"},
   info |-> {"ERROR", "WARNING", "INFO"},
   debug |-> {"ERROR", "WARNING", "INFO", "DEBUG"},
   protobuf |-> {"PROTOBUF"}, protoraw |-> {"PROTORAW"}, all |-> OurBits]

-----------------------------------------------------------------------------
\* One step of tokenize(): <<tokens so far, token being read>>; operator>>
\* skips blanks and reads up to the next one.
TokStep(acc, c) ==
  IF c # Blank THEN <<acc[1], Append(acc[2], c)>>
  ELSE IF acc[2] = <<>> THEN acc ELSE <<Append(acc[1], acc[2]), <<>>>>

\* Config::tokenize(): the blank-separated words of the input.
tokenize(s) ==
  LET r == FoldLeft(TokStep, <<<<>>, <<>>>>, s)
  IN  IF r[2] = <<>> THEN r[1] ELSE Append(r[1], r[2])

\* One line of Config::parse(): cut at the first '#', ss >> key, and the
\* key stored with the rest of the line when that is not empty.
ParseLine(conf, line) ==
  LET pos  == SelectInSeq(line, LAMBDA c : c = Hash)
      toks == tokenize(IF pos # 0 THEN SubSeq(line, 1, pos - 1) ELSE line)
  IN  IF Len(toks) < 2 THEN conf ELSE (Head(toks) :> Tail(toks)) @@ conf

\* Config::parse().
parse(file) == FoldLeft(ParseLine, [k \in {} |-> <<>>], file)

\* Config::set() on the configuration conf in namespace ns.
SetIn(conf, ns, key, val) ==
  LET full == IF ~Contains(key, Dot) /\ ns # <<>> THEN ns \o <<Dot>> \o key ELSE key
      vals == tokenize(val)
  IN  IF key = <<>> \/ vals = <<>> THEN conf ELSE (full :> vals) @@ conf

\* Mutant: the check that there is a namespace left out.
getOptionListNoNsCheck(conf, ns, k) ==
  LET prefix == ns \o <<Dot>>
      key    == IF prefix # k THEN prefix \o k ELSE k
  IN  IF key \in DOMAIN conf THEN conf[key] ELSE <<>>

\* Config::getOptionList(): the key is prefixed unless there is no
\* namespace or prefix.compare(0, prefix.length(), key) is 0, that is the
\* key is the prefix itself.
getOptionList(conf, ns, k) ==
  LET prefix == ns \o <<Dot>>
      key    == IF ns # <<>> /\ prefix # k THEN prefix \o k ELSE k
  IN  IF key \in DOMAIN conf THEN conf[key] ELSE <<>>

\* Log::SetLogLevel(levels): the low-order bits of the mask kept, ours
\* replaced by those of the levels known; an unknown one is ignored.
SetLogLevel(mask, levels) ==
  (mask \cap LowBits)
    \cup UNION {LevelOption[t[1]] :
                  t \in {u \in Range(levels) : Len(u) = 1 /\ u[1] \in DOMAIN LevelOption}}

-----------------------------------------------------------------------------
(* The reference: what a configuration file and set() are meant to         *)
(* associate with a key, stated without the code's loops.                  *)

\* The maximal runs of non-blank atoms of s, in order.
Words(s) ==
  LET starts == {i \in 1..Len(s) : s[i] # Blank /\ (i = 1 \/ s[i - 1] = Blank)}
      last(i) == CHOOSE j \in i..Len(s) :
                   /\ \A m \in i..j : s[m] # Blank
                   /\ j = Len(s) \/ s[j + 1] = Blank
      st == SetToSortSeq(starts, <)
  IN  [n \in 1..Len(st) |-> SubSeq(s, st[n], last(st[n]))]

\* The words of a line before its comment.
LineWords(l) ==
  LET cut == CHOOSE n \in 0..Len(l) :
               ~Contains(SubSeq(l, 1, n), Hash) /\ (n = Len(l) \/ l[n + 1] = Hash)
  IN  Words(SubSeq(l, 1, cut))

\* A key is given the values of the last line that names it with values.
RefParse(file) ==
  LET good == {i \in DOMAIN file : Len(LineWords(file[i])) >= 2}
      keys == {Head(LineWords(file[i])) : i \in good}
      lastOf(k) == Max({i \in good : Head(LineWords(file[i])) = k})
  IN  [k \in keys |-> Tail(LineWords(file[lastOf(k)]))]

-----------------------------------------------------------------------------
VARIABLES
  conf,      \* Config::m_configuration
  ns,        \* Config::m_namespace
  env,       \* the value of XrdSsiPbLogLevel in the environment
  mask,      \* the message mask of XrdSsi::Log
  hiRes,     \* Log::SetHiRes() has been called
  thrown,    \* an exception has ended the program
  calls,     \* the calls made
  assigned,  \* (reference) key |-> <<namespace then, the words given>>
  defaulted  \* (reference) the last client service found no "log" option

vars == <<conf, ns, env, mask, hiRes, thrown, calls, assigned, defaulted>>

\* A program with a default-constructed Config; the XRootD log's mask has
\* all our bits (XrdSysError starts with msgMask -1), and the low-order
\* bits XRootD was configured with.
Init ==
  /\ conf = [k \in {} |-> <<>>] /\ ns = <<>>
  /\ env \in EnvValues \cup {NoEnv}
  /\ mask \in {low \cup OurBits : low \in SUBSET LowBits}
  /\ hiRes = FALSE /\ thrown = FALSE /\ calls = 0
  /\ assigned = [k \in {} |-> <<>>] /\ defaulted = FALSE

Call == ~thrown /\ calls < MaxCalls /\ calls' = calls + 1

\* Config::set(), and the reference association of the key.
Assign(key, val) ==
  /\ conf' = SetIn(conf, ns, key, val)
  /\ assigned' = IF key = <<>> \/ Words(val) = <<>> THEN assigned
                 ELSE (key :> <<ns, Words(val)>>) @@ assigned

set(key, val) ==
  /\ Call /\ Assign(key, val)
  /\ UNCHANGED <<ns, env, mask, hiRes, thrown, defaulted>>

\* Config::getEnv("log", "XrdSsiPbLogLevel"): set() when the variable exists.
getEnv ==
  /\ Call /\ env # NoEnv /\ Assign(<<"log">>, env)
  /\ UNCHANGED <<ns, env, mask, hiRes, thrown, defaulted>>

\* Config::setNamespace().
setNamespace(n) ==
  /\ Call /\ ns' = n
  /\ UNCHANGED <<conf, env, mask, hiRes, thrown, assigned, defaulted>>

\* Config(filename, ns): a file that cannot be opened throws
\* XrdSsiException; otherwise the object holds what parse() reads.
ConfigFromFile(file, n) ==
  /\ Call
  /\ \/ thrown' = TRUE /\ UNCHANGED <<conf, ns, assigned>>
     \/ /\ conf' = parse(file) /\ ns' = n
        /\ assigned' = [k \in DOMAIN RefParse(file) |-> <<n, RefParse(file)[k]>>]
        /\ UNCHANGED thrown
  /\ UNCHANGED <<env, mask, hiRes, defaulted>>

\* Config(): an empty configuration.
NewConfig ==
  /\ Call
  /\ conf' = [k \in {} |-> <<>>] /\ ns' = <<>> /\ assigned' = [k \in {} |-> <<>>]
  /\ UNCHANGED <<env, mask, hiRes, thrown, defaulted>>

\* getOptionValueBool(), getOptionValueInt(): the first value, which must
\* be true or false (the values are lower case), or a number for std::stoi.
BoolOk(l) == l = <<>> \/ l[1] \in {<<"true">>, <<"false">>}
IntOk(l)  == l = <<>> \/ l[1] \in {<<"16384">>, <<"1024">>}

\* The ServiceClientSide constructor, endpoint and resource given: GetService()
\* (which can fail with an XrdSsiException and which initialises logging),
\* then SetLogLevel() with the "log" option or DefaultLogLevel ("error"),
\* SetHiRes() if "log.hiRes" is true, "response.bufsize" and
\* "resource.options", where any value but Reusable throws.
ServiceClientSide ==
  /\ Call
  /\ LET get(k)  == getOptionList(conf, ns, k)
         levels == get(<<"log">>)
         hr     == get(<<"log", Dot, "hiRes">>)
         ok     == /\ BoolOk(hr) /\ IntOk(get(<<"response", Dot, "bufsize">>))
                   /\ \A i \in DOMAIN get(<<"resource", Dot, "options">>) :
                         get(<<"resource", Dot, "options">>)[i] = <<"Reusable">>
     IN  \/ thrown' = TRUE /\ UNCHANGED <<mask, hiRes, defaulted>>
         \/ /\ mask' = SetLogLevel(mask, IF levels # <<>> THEN levels ELSE <<<<"error">>>>)
            /\ defaulted' = (levels = <<>>)
            /\ hiRes' = (hiRes \/ (hr # <<>> /\ hr[1] = <<"true">>))
            /\ thrown' = ~ok
  /\ UNCHANGED <<conf, ns, env, assigned>>

\* TestServiceProvider::Init() reads "log" from Config(cfgFn, "test"), and
\* XrdSsiCtaServiceProvider::ExceptionThrowingInit() "cta.log.ssi" from
\* Config(cfgFn); without it the level is "info".
ProviderInit(key) ==
  /\ Call
  /\ LET levels == getOptionList(conf, ns, key)
     IN  mask' = SetLogLevel(mask, IF levels # <<>> THEN levels ELSE <<<<"info">>>>)
  /\ UNCHANGED <<conf, ns, env, hiRes, thrown, assigned, defaulted>>

Next ==
  \/ \E n \in NsArgs : setNamespace(n)
  \/ \E k \in KeyArgs, v \in ValueArgs : set(k, v)
  \/ getEnv
  \/ \E f \in Files, n \in NsArgs : ConfigFromFile(f, n)
  \/ NewConfig
  \/ ServiceClientSide
  \/ \E k \in {<<"log">>, <<"cta", Dot, "log", Dot, "ssi">>} : ProviderInit(k)

Spec == Init /\ [][Next]_vars

-----------------------------------------------------------------------------
TypeOK ==
  /\ \A k \in DOMAIN conf : conf[k] \in Seq(Seq(STRING)) \ {<<>>}
  /\ mask \subseteq LowBits \cup OurBits
  /\ hiRes \in BOOLEAN /\ thrown \in BOOLEAN /\ calls \in 0..MaxCalls

(***************************************************************************)
(* With no namespace, the case of every configuration in the code but the  *)
(* test server's, getOptionList(key) returns the words last given to key,  *)
(* by set(), getEnv() or the last line of the file that names it: the      *)
(* tokenizing, the comment stripping and the key handling lose nothing.     *)
(***************************************************************************)
ConfigRoundTrip ==
  \A k \in DOMAIN assigned : getOptionList(conf, ns, k) = assigned[k][2]

(***************************************************************************)
(* The same in a namespace: the comments of set() ("Set (or override)      *)
(* config items") and getOptionList() ("Check whether key should be        *)
(* namespaced") mean that what was set or read under a key, in the current *)
(* namespace, is what getOptionList() returns for it.                      *)
(***************************************************************************)
NamespacedRoundTrip ==
  \A k \in DOMAIN assigned :
    assigned[k][1] = ns => getOptionList(conf, ns, k) = assigned[k][2]

(***************************************************************************)
(* The comment in the ServiceClientSide constructor: "The default is no    *)
(* logging": a client whose configuration has no "log" option logs none of *)
(* the framework's own messages.                                           *)
(***************************************************************************)
DefaultNoLogging == defaulted => mask \cap OurBits = {}

====
