-------------------------- MODULE MCEventPublisher --------------------------
(* Two completions of one session announce the same file.                  *)
EXTENDS EventPublisher

SameFile == [c \in Calls |-> "file"]
============================================================================
