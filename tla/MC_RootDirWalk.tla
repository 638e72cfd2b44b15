------------------------------- MODULE MC_RootDirWalk -------------------------------
(***************************************************************************)
(* Instances of RootDirWalk for TLC: a tree of depth three under the       *)
(* CASTOR prefix, every top-level directory in it, and every state of the  *)
(* EOS tree that is closed under parents.                                  *)
(***************************************************************************)
EXTENDS RootDirWalk

Names == {"u", "v"}

\* The paths below a prefix, down to two more components.
Below(pre) == {pre} \cup {pre \o <<a>> : a \in Names} \cup {pre \o <<a, b>> : a, b \in Names}

\* A tree: every directory's parent is in it.
Trees(paths) == {t \in SUBSET paths : \A q \in t : Len(q) > 1 => Front(q) \in t}

MCCastorPrefix == <<"castor">>
MCTops == Below(MCCastorPrefix) \ {MCCastorPrefix}

\* CTADIRSHELPER lacks /castor/v/u, so a walk to it cannot succeed.
MCHelperDirs == Below(MCCastorPrefix) \ {<<"castor", "v", "u">>}

\* The castor.prefix and eos.prefix of the configuration file agree.
MCSameEosStates == Trees(Below(MCCastorPrefix))

\* They differ: EOS holds its tree under /eos.
MCEosPrefix == <<"eos">>
MCEosStates == Trees(Below(MCEosPrefix))

====
