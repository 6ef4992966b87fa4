------------------------------ MODULE KernelMC ------------------------------
(***************************************************************************)
(* Small instances of the ingress kernel, side by side: each behaviour      *)
(* plays one scene.  The constants of the configuration are the names and   *)
(* the classes the scenes draw from, each scene sets its own bounds.        *)
(***************************************************************************)
EXTENDS Kernel

VARIABLE scene       \* which instance the behaviour plays
kernelVars == <<scene, vars>>

Do(op, after, next) == [op |-> op, after |-> after, next |-> next]

Emit == Do("emit", 0, "emit")
Packet(after) == Do("enqueue", after, "emit")
Later(next) == Do("schedule", 1, next)
Refuse == Do("fail", 0, "emit")

\* Commands that emit and schedule a failure, or are refused half way.
SomePrograms == {<<Emit, Later("fail")>>, <<Later("emit"), Refuse>>}

\* Commands whose scheduled directives never fail.
LivePrograms == {<<Emit, Later("emit")>>, <<Packet(1)>>}

NoReaction == {<<>>}
\* A reaction that emits again, and one that is refused.
SomeReactions == {<<>>, <<Emit>>, <<Refuse>>}
\* A command that is refused after it issued a packet.
TracePrograms == {<<Packet(0), Refuse>>}
\* A reaction that issues a packet.
IssuingReactions == {<<>>, <<Packet(0)>>}

\* Two commands that expect revisions, admitted by priority.
Commands == INSTANCE Kernel WITH
    Requests <- {"r1", "r2"}, Plugins <- {"p"}, EventPlugins <- {},
    CadencePlugins <- {}, Host <- "host", Event <- "event", PacketClasses <- {2},
    Priorities <- {0, 1}, Delays <- {1}, Programs <- SomePrograms,
    Reactions <- NoReaction, MaxDepth <- 1, MaxTime <- 1, MaxIngress <- 3,
    MaxEvents <- 2, MaxBoundaries <- 0, MaxFailures <- 0

\* Two plugins exchange and withdraw packets; a system may fail once.
Packets == INSTANCE Kernel WITH
    Requests <- {}, Plugins <- {"p", "q"}, EventPlugins <- {"p"},
    CadencePlugins <- {"q"}, Host <- "host", Event <- "event", PacketClasses <- {2},
    Priorities <- {0}, Delays <- {1}, Programs <- SomePrograms,
    Reactions <- NoReaction, MaxDepth <- 1, MaxTime <- 1, MaxIngress <- 3,
    MaxEvents <- 0, MaxBoundaries <- 0, MaxFailures <- 1

\* A reactor answers the events of commands and of boundary systems.
Reacting == INSTANCE Kernel WITH
    Requests <- {"r1"}, Plugins <- {"p"}, EventPlugins <- {"p"}, CadencePlugins <- {},
    Host <- "host", Event <- "event", PacketClasses <- {2}, Priorities <- {0},
    Delays <- {0}, Programs <- LivePrograms, Reactions <- SomeReactions,
    MaxDepth <- 2, MaxTime <- 1, MaxIngress <- 2, MaxEvents <- 1,
    MaxBoundaries <- 1, MaxFailures <- 0

\* The reactor's answer is a packet.
Issuing == INSTANCE Kernel WITH
    Requests <- {"r1"}, Plugins <- {"p"}, EventPlugins <- {}, CadencePlugins <- {},
    Host <- "host", Event <- "event", PacketClasses <- {2}, Priorities <- {0},
    Delays <- {1}, Programs <- LivePrograms, Reactions <- IssuingReactions,
    MaxDepth <- 2, MaxTime <- 2, MaxIngress <- 2, MaxEvents <- 0,
    MaxBoundaries <- 0, MaxFailures <- 0

\* A refused command leaves its packet behind, and the next record its identifier.
Tracing == INSTANCE Kernel WITH
    Requests <- {"r1"}, Plugins <- {"p"}, EventPlugins <- {}, CadencePlugins <- {},
    Host <- "host", Event <- "event", PacketClasses <- {2}, Priorities <- {0},
    Delays <- {1}, Programs <- TracePrograms, Reactions <- NoReaction,
    MaxDepth <- 1, MaxTime <- 0, MaxIngress <- 4, MaxEvents <- 0,
    MaxBoundaries <- 0, MaxFailures <- 0

SceneInit ==
    \/ scene = "commands" /\ Commands!Init
    \/ scene = "packets" /\ Packets!Init
    \/ scene = "reactions" /\ Reacting!Init
    \/ scene = "issuing" /\ Issuing!Init
    \/ scene = "traces" /\ Tracing!Init

CommandStep == scene = "commands" /\ Commands!Next /\ UNCHANGED scene
PacketStep == scene = "packets" /\ Packets!Next /\ UNCHANGED scene
ReactionStep == scene = "reactions" /\ Reacting!Next /\ UNCHANGED scene
IssuingStep == scene = "issuing" /\ Issuing!Next /\ UNCHANGED scene
\* Behind an overdue packet every call that moves time is refused (finding 1).
Stuck ==
    /\ scene = "issuing" /\ pc = "idle" /\ \E k \in pending : k.due < now
    /\ UNCHANGED kernelVars
TraceStep == scene = "traces" /\ Tracing!Next /\ UNCHANGED scene

SceneStep ==
    CommandStep \/ PacketStep \/ ReactionStep \/ IssuingStep \/ Stuck \/ TraceStep

SceneSpec == SceneInit /\ [][SceneStep]_kernelVars

\* A kernel whose reactors issue packets, outside a boundary too.
IssuingSpec ==
    /\ scene = "issuing" /\ Issuing!Init
    /\ [][Issuing!Next /\ UNCHANGED scene]_kernelVars
=============================================================================
