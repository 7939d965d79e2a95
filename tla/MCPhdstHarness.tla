--------------------------- MODULE MCPhdstHarness ---------------------------
(***************************************************************************)
(* Two events on a tape, one of them without PV chain, and a header,       *)
(* DELSIM's set-up record and an event that pass 1 does not have.          *)
(***************************************************************************)
EXTENDS PhdstHarness

CONSTANTS k0, k1, k2, k3, m1, m2, c1

MCKeys == {k0, k1, k2, k3}
MCSetupKeys == {k0}
MCModules == {m1, m2}
MCCollections == {c1}

Header == [dst |-> FALSE, pv |-> FALSE, key |-> k1, mods |-> {m2}]
SetupRecord == [dst |-> TRUE, pv |-> FALSE, key |-> k0, mods |-> {m2}]
Event(k, mods) == [dst |-> TRUE, pv |-> TRUE, key |-> k, mods |-> mods]
WithoutPV(r) == [r EXCEPT !.pv = FALSE]

MCTape ==
  {Header, SetupRecord, Event(k1, {m1}), WithoutPV(Event(k2, {})), Event(k3, {m1, m2})}

\* Two intermediates of one run that share k1, one entry without a key; and one
\* whose pass 1 met the set-up record behind a header.
Config(inter, cap, emits) ==
  [inter |-> inter, max_events |-> cap, emits |-> emits, output |-> TRUE]

Two == << <<None, k1>>, <<k1, k2>> >>
Swapped == << <<k2>>, <<k0>>, <<k1>> >>

MCConfigs ==
  { Config(<<>>, 0, {c1}), Config(<<>>, 2, {c1}), Config(Two, -1, {c1}),
    Config(Two, 1, {}), Config(Swapped, 0, {c1}),
    [Config(<<>>, 0, {c1}) EXCEPT !.output = FALSE] }

\* For the run about the set-up record.
SetupTape == {Header, SetupRecord, Event(k1, {m1})}
OneConfig == {Config(<<>>, 0, {c1})}
=============================================================================
