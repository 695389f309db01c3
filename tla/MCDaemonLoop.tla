---------------------------- MODULE MCDaemonLoop ----------------------------
(***************************************************************************)
(* Values for the constants of DaemonLoop.                                 *)
(***************************************************************************)
EXTENDS DaemonLoop

McNumerals == [n \in {"0", "1", "16", "25", "100", "127", "128", "256", "0x10"} |->
    CASE n = "0" -> 0 [] n = "1" -> 1 [] n = "25" -> 25 [] n = "100" -> 100
      [] n = "127" -> 127 [] n = "128" -> 128 [] n = "256" -> 256 [] OTHER -> 16]
McDecimals == DOMAIN McNumerals \ {"0x10"}
McPrinted == McDecimals
McNames == {"quiet", "balanced", "other", "a-name-of-more-than-31-characters"}
McTooLong == {"a-name-of-more-than-31-characters"}

McProfiles == [id \in {"quiet", "balanced"} |-> IF id = "quiet" THEN 0 ELSE 1]

\* An owner in the group, and a guest who may stay silent.
McPeer == [c \in Clients |-> [uid |-> "user", gid |-> FALSE, groups |-> c = "owner",
                              member |-> FALSE]]

\* What clients send: one line of each kind that matters to the loop, and
\* lines the client program never sends.
McLines ==
    {<<"keyboard-backlight", "set", "0">>, <<"keyboard-backlight", "set", "100">>,
     <<"keyboard-backlight", "set", "1">>,
     <<"keyboard-backlight", "timeout", "on">>, <<"keyboard-backlight", "timeout", "off">>,
     <<"power-source", "auto", "on">>, <<"power-source", "auto", "off">>,
     <<"power-source", "apply">>, <<"profile", "quiet">>,
     <<"auto">>, <<"stop">>, <<"status">>, <<"nonsense">>}

Mains(online) == [type |-> "Mains", online |-> online]
Battery == [type |-> "Battery", online |-> FALSE]
McSupplies == {<<Battery, Mains(FALSE)>>, <<Battery, Mains(TRUE)>>}

\* The read-back fails, or the write does.
McOutcomes == {[read |-> TRUE, write |-> TRUE, back |-> TRUE],
               [read |-> TRUE, write |-> TRUE, back |-> FALSE],
               [read |-> FALSE, write |-> FALSE, back |-> FALSE]}
=============================================================================
