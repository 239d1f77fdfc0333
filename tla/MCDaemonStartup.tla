--------------------------- MODULE MCDaemonStartup -----------------------------
(* Values for model-checking DaemonStartup. *)
EXTENDS DaemonStartup

CONSTANTS t1, t2, t3, p1, p2

Section(t, p) == [tid |-> t, peer |-> p, enabled |-> TRUE]
Disabled(t, p) == [tid |-> t, peer |-> p, enabled |-> FALSE]

SomeConfigs ==
    { <<>>,
      <<Section(t1, p1)>>,
      <<Section(t1, p1), Disabled(t2, p1), Section(t3, p2)>>,
      <<Section(t1, p1), Section(t2, p2), Section(t3, p1)>>,
      <<Section(t1, p1), Section(t1, p2)>>,           \* one id, two peers
      <<Section(t1, p1), Section(t1, p1)>> }          \* the same tunnel twice

================================================================================
