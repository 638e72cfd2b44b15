\* The file injector, with command lines of up to three words: the options,
\* a configuration file that opens and one that does not, a path EOS may
\* already hold, the empty path and an unknown word; castor.json and
\* eos.layout missing, converted (std::stoi reads "0x100012" as 0), or
\* rejected by the Config getters.
CONSTANTS
  Tool = "file"
  Words = {"--config", "--path", "--fileid", "--check", "ping", "c.conf", "/d", "", "-x"}
  MaxArgs = 3
  ConfFiles = {"/etc/cta/castor-migration.conf", "c.conf"}
  JsonValues = {Absent, "True", "yes"}
  LayoutValues = {Absent, "0x100012", "x"}
  IntWords = {"0x100012"}
  Paths = {"/d"}
  Absent = Absent
SPECIFICATION Spec
INVARIANTS TypeOK SuccessMeansDone
\* main() returns: nothing is left to do.
CHECK_DEADLOCK FALSE
