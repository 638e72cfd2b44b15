------------------------------- MODULE CtaProvider -------------------------------
(***************************************************************************)
(* The CTA frontend's XRootD SSI service provider                          *)
(* (src/CTA/xroot_plugins/XrdSsiCtaServiceProvider.cpp).  XRootD calls     *)
(* Init() once; ExceptionThrowingInit() reads the configuration, builds    *)
(* the logger, the catalogue, the scheduler database and the scheduler,    *)
(* and reads the namespace keytab named by cta.ns.config with              *)
(* setNamespaceMap().  Any exception makes Init() call exit(1).            *)
(* QueryResource() and GetService() change no state of the provider.       *)
(*                                                                         *)
(* A keytab file is a sequence of lines, a line a sequence of atoms:       *)
(* Blank (white space), Hash ('#') and the atoms of names.  The catalogue, *)
(* the scheduler and the loggers are abstracted to whether they could be   *)
(* built.                                                                  *)
(***************************************************************************)
EXTENDS Naturals, Sequences, SequencesExt

CONSTANTS
  Keytabs,     \* the contents of the keytab files cta.ns.config may name
  Unreadable,  \* a keytab that std::ifstream cannot open
  NoNsConfig,  \* no cta.ns.config option
  NoError      \* the keytab parsed

Blank == " "
Hash == "#"

\* The value of cta.log.url: absent (the default "syslog:"), one of the
\* three known schemes, or another string.
LogURLs == {"absent", "syslog:", "stdout:", "file:", "other"}

\* The value of an integer option: absent, an integer, or a string that
\* std::stoi() rejects.
IntOptions == {"absent", "int", "bad"}

-----------------------------------------------------------------------------
(* setNamespaceMap()                                                       *)

\* line.resize(line.find('#')): the comment is cut off.
StripComment(line) ==
  LET pos == SelectInSeq(line, LAMBDA a : a = Hash)
  IN  IF pos = 0 THEN line ELSE SubSeq(line, 1, pos - 1)

\* The words operator>> reads from a std::stringstream, one white-space
\* separated word at a time.
WordStep(ws, a) ==
  IF a = Blank THEN Append(ws, <<>>)
  ELSE IF ws = <<>> THEN <<<<a>>>>
  ELSE [ws EXCEPT ![Len(ws)] = Append(@, a)]

Words(line) == SelectSeq(FoldLeft(WordStep, <<>>, line), LAMBDA w : w # <<>>)

\* Mutant: a line with more than three words is accepted.
KeytabLineNoEolCheck(acc, line) ==
  LET ws == Words(StripComment(line))
      next == [acc EXCEPT !.lineno = @ + 1]
  IN  IF acc.err # NoError THEN acc
      ELSE IF Len(ws) < 3
        THEN IF ws = <<>> THEN next ELSE [next EXCEPT !.err = acc.lineno]
      ELSE IF ws[1] \in DOMAIN acc.map THEN next
      ELSE [next EXCEPT !.map = (ws[1] :> <<ws[2], ws[3]>>) @@ acc.map]

\* One round of the loop over std::getline(): ss >> diskInstance >>
\* endpoint >> token >> eol.  A blank line is skipped; a line without
\* exactly three words throws, naming lineno (counted from 0); a good line
\* is inserted into m_namespaceMap, where std::map::insert() leaves an
\* instance already present unchanged.
KeytabLine(acc, line) ==
  LET ws == Words(StripComment(line))
      next == [acc EXCEPT !.lineno = @ + 1]
  IN  IF acc.err # NoError THEN acc
      ELSE IF Len(ws) # 3
        THEN IF ws = <<>> THEN next ELSE [next EXCEPT !.err = acc.lineno]
      ELSE IF ws[1] \in DOMAIN acc.map THEN next
      ELSE [next EXCEPT !.map = (ws[1] :> <<ws[2], ws[3]>>) @@ acc.map]

\* The parse of a whole keytab: the map built and the line that threw.
setNamespaceMap(file) ==
  FoldLeft(KeytabLine, [map |-> <<>>, lineno |-> 0, err |-> NoError], file)

-----------------------------------------------------------------------------
(* The keytab format, stated directly: every line is blank or has three    *)
(* words once its comment is cut off, and an instance maps to the endpoint *)
(* and token of the first line that names it.                              *)

LineWords(file, j) == Words(StripComment(file[j]))
KeytabOk(file) == \A j \in 1..Len(file) : Len(LineWords(file, j)) \in {0, 3}
GoodLines(file) == {j \in 1..Len(file) : Len(LineWords(file, j)) = 3}
Instances(file) == {LineWords(file, j)[1] : j \in GoodLines(file)}
FirstLine(file, d) ==
  CHOOSE j \in GoodLines(file) :
    /\ LineWords(file, j)[1] = d
    /\ \A k \in GoodLines(file) : LineWords(file, k)[1] = d => j <= k
RefNamespaceMap(file) ==
  [d \in Instances(file) |-> SubSeq(LineWords(file, FirstLine(file, d)), 2, 3)]

-----------------------------------------------------------------------------
VARIABLES
  status,   \* "loading", "started", or "exited" (exit(1))
  logger,   \* the logger m_log holds: "none", "syslog", "stdout", "file"
  nsFile,   \* the keytab read, or NoNsConfig
  nsMap     \* m_namespaceMap

vars == <<status, logger, nsFile, nsMap>>

Init ==
  /\ status = "loading" /\ logger = "none" /\ nsFile = NoNsConfig /\ nsMap = <<>>

\* Init() and ExceptionThrowingInit(), for one content of the configuration
\* file.  The logger: cta.log.url chooses it, an unknown scheme throws, and
\* so does a cta.log.level toLogLevel() does not know or a log file that
\* cannot be opened (built is false).  The catalogue: /etc/cta/
\* cta-catalogue.conf must parse (login), cta.catalogue.numberofconnections
\* must be set and an integer, and ping() must succeed.
\* cta.objectstore.backendpath must be set.  The integer options
\* cta.schedulerdb.numberofthreads and cta.archivefile.max_size_gb are
\* optional, but std::stoi() throws on one that is not an integer.
\* cta.ns.config, when set, is read by setNamespaceMap().  Every exception
\* is caught by Init(), which logs it and calls exit(1).
ProviderInit ==
  /\ status = "loading"
  /\ \E url \in LogURLs, built \in BOOLEAN, login \in BOOLEAN, conns \in IntOptions,
        ping \in BOOLEAN, backend \in BOOLEAN, threads \in IntOptions,
        maxSize \in IntOptions, ns \in Keytabs \cup {Unreadable, NoNsConfig} :
       LET parsed == IF ns \in Keytabs THEN setNamespaceMap(ns) ELSE setNamespaceMap(<<>>)
           ok == /\ url # "other" /\ built
                 /\ login /\ conns = "int" /\ ping /\ backend
                 /\ threads # "bad" /\ maxSize # "bad"
                 /\ ns # Unreadable /\ parsed.err = NoError
       IN  /\ status' = IF ok THEN "started" ELSE "exited"
           /\ logger' = IF ok
                          THEN CASE url \in {"absent", "syslog:"} -> "syslog"
                                 [] url = "stdout:" -> "stdout"
                                 [] url = "file:" -> "file"
                          ELSE "none"
           /\ nsFile' = ns
           /\ nsMap' = IF ok THEN parsed.map ELSE nsMap

Next == ProviderInit

Spec == Init /\ [][Next]_vars

-----------------------------------------------------------------------------
TypeOK ==
  /\ status \in {"loading", "started", "exited"}
  /\ logger \in {"none", "syslog", "stdout", "file"}
  /\ nsFile \in Keytabs \cup {Unreadable, NoNsConfig}

(***************************************************************************)
(* The keytab format of setNamespaceMap(): the frontend starts with a      *)
(* keytab only when every line of it is blank or has exactly three words,  *)
(* and then m_namespaceMap maps each disk instance to the endpoint and     *)
(* token of the first line naming it, and to nothing else.                 *)
(***************************************************************************)
NamespaceMapMatchesKeytab ==
  nsFile \in Keytabs =>
    /\ status = "started" => KeytabOk(nsFile) /\ nsMap = RefNamespaceMap(nsFile)
    /\ KeytabOk(nsFile) => setNamespaceMap(nsFile).err = NoError

====
