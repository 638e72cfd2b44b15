------------------------------- MODULE MC_CtaProvider -------------------------------
(***************************************************************************)
(* Keytabs of up to three lines drawn from: a blank line, a comment, good  *)
(* lines for two disk instances (one of them twice, with two endpoints,    *)
(* one with a comment after it), a line of two words and one of four.     *)
(***************************************************************************)
EXTENDS CtaProvider

CONSTANTS MCUnreadable, MCNoNsConfig, MCNoError

B == Blank
MCLines ==
  { <<B>>,
    <<Hash, "i", "1">>,
    <<"i1", B, "e1", B, "t">>,
    <<B, "i1", B, B, "e2", B, "t", Hash, "x">>,
    <<"i2", B, "e1", B, "t">>,
    <<"i2", B, "e1">>,
    <<"i1", B, "e1", B, "t", B, "x">> }

MCKeytabs == UNION {[1..n -> MCLines] : n \in 0..3}

====
