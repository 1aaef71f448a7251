---------------------------- MODULE MCTelemetry ----------------------------
\* Two tasks announce the lockdown posture, one of them also the app registry
\* and a bad manifest, and emits ticks, which are not retained.
EXTENDS Telemetry

CONSTANTS guard, host, hud, Lock, Apps, Bad, Tick

TheEmitters == {guard, host}
TheClients  == {hud}
TheKeys     == {Lock, Apps, Bad, Tick}
TheSticky   == {Lock, Apps, Bad}
TheEmits    == [e \in TheEmitters |-> IF e = guard THEN {Lock} ELSE TheKeys]
=============================================================================
