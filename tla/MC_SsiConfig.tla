------------------------------- MODULE MC_SsiConfig -------------------------------
EXTENDS SsiConfig

\* The keys the client programs set: "log" (XRDDEBUG), "log.hiRes",
\* "resource.options", and the empty key set() ignores.
MCKeyArgs == {<<"log">>, <<"log", ".", "hiRes">>, <<"resource", ".", "options">>, <<>>}

\* Values with several words, surrounding blanks, only blanks, an unknown
\* level and a bad boolean.
MCValueArgs == {<<"all">>, <<" ", "info", " ", "debug">>, <<" ">>,
                <<"true">>, <<"Reusable">>, <<"loud", " ">>}

MCEnvValues == {<<"error", " ", "protobuf">>}

\* A configuration file: a key with values and a trailing comment, a key
\* with none, a commented-out line, a line naming the key again, and a
\* namespaced key.
MCFile1 == << <<"log", " ", "info", "#", "x">>,
              <<"cta", ".", "log", ".", "ssi">>,
              <<"#", "log", " ", "all">>,
              <<" ", "log", " ", "warning", " ", "debug">> >>
MCFile2 == << <<"test", ".", "log", " ", "debug">>,
              <<"cta", ".", "log", ".", "ssi", " ", "none">> >>
MCFiles == {MCFile1, MCFile2}

\* Every configuration of the code but the test server's has no namespace.
MCNsArgs == {<<>>}
MCNsArgsTest == {<<"test">>}

MCMaxCalls == 3

====
