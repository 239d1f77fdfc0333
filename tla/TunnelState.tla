------------------------------ MODULE TunnelState ------------------------------
(***************************************************************************)
(* The tunnel lifecycle states of tunnel/lifecycle.rs and the one          *)
(* primitive every writer of a tunnel's state goes through: a validity     *)
(* check against a fixed table followed by an atomic compare-exchange.     *)
(***************************************************************************)

TunnelStates ==
    {"Initializing", "Configured", "Active", "Stale", "TearingDown", "Destroyed"}

ValidTransitions ==
    { <<"Initializing", "Configured">>,
      <<"Configured", "Active">>,
      <<"Active", "Stale">>,
      <<"Stale", "Active">>,                \* recovery on keepalive received
      <<"Active", "TearingDown">>,
      <<"Stale", "TearingDown">>,
      <<"Configured", "TearingDown">>,      \* shutdown before activation
      <<"Initializing", "TearingDown">>,    \* shutdown during init
      <<"TearingDown", "Destroyed">> }

IsValidTransition(from, to) == <<from, to>> \in ValidTransitions

(* AtomicTunnelState::transition: the state after the call, given the      *)
(* state it finds.  An invalid pair, or a lost race, leaves it alone.      *)
AfterTransition(current, from, to) ==
    IF IsValidTransition(from, to) /\ current = from THEN to ELSE current

================================================================================
