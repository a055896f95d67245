------------------------------ MODULE ProbeLoop ------------------------------
(***************************************************************************)
(* One registered path probed by its loop (internal/engine/client.go,      *)
(* clientProbeLoop; server.go, serverControlLoop paces alike): the ticker  *)
(* fires every ProbeInterval, an up path is probed at every firing, a down *)
(* path at every DownEvery-th.  The network answers, delays or loses every *)
(* probe as it likes.                                                      *)
(***************************************************************************)
EXTENDS Link

CONSTANT DownEvery   \* firings between probes of a down path (5)

ASSUME ProbeLoopAssumption == DownEvery \in Nat \ {0}

VARIABLES wait,     \* ticks until the ticker fires
          tick,     \* firings so far, modulo DownEvery
          silence,  \* ticks since the last ack the link accepted (history)
          lagging   \* the last probe left before its predecessor was answered (history)

loopVars == <<up, srtt, rttvar, hasRTT, lossFactor, consecAcked, lastProbeSeq,
              outstanding, sinceDown, wait, tick, silence, lagging>>

SilenceCap == MaxRTO + 2 * ProbeInterval + 1

LoopInit == Init /\ wait = ProbeInterval /\ tick = 0 /\ silence = 0 /\ lagging = TRUE

(* One firing of the ticker. *)
LoopTick ==
  /\ wait = 0
  /\ wait' = ProbeInterval
  /\ tick' = (tick + 1) % DownEvery
  /\ \/ /\ up \/ tick' = 0
        /\ OnProbeSent
        /\ lagging' = (outstanding # <<>>)
     \/ /\ ~up /\ tick' # 0
        /\ UNCHANGED <<vars, lagging>>
  /\ UNCHANGED silence

(* The ack of a remembered probe, or of another one, arrives. *)
Ack ==
  /\ \/ /\ \E i \in 1..Len(outstanding) : OnAck(outstanding[i].seq)
        /\ silence' = 0
     \/ OnUnknownAck /\ UNCHANGED silence
  /\ UNCHANGED <<wait, tick, lagging>>

(* A probe or a data packet cannot be written. *)
WriteError ==
  /\ MarkDown
  /\ lagging' = TRUE
  /\ UNCHANGED <<wait, tick, silence>>

(* Time passes between two firings; a due firing is served at once. *)
Pass ==
  /\ wait > 0
  /\ Elapse
  /\ wait' = wait - 1
  /\ silence' = AtMost(silence + 1, SilenceCap)
  /\ UNCHANGED <<tick, lagging>>

LoopNext == LoopTick \/ Ack \/ WriteError \/ Pass

LoopSpec == LoopInit /\ [][LoopNext]_loopVars /\ WF_loopVars(LoopTick) /\ WF_loopVars(Pass)

----------------------------------------------------------------------------
(* A path that stops answering does not stay up: its silence is noticed    *)
(* one timeout and two probe intervals after the last ack at the latest.   *)
(* The limit on remembered probes must not forget the old ones before the  *)
(* timeout does (OnProbeSent, probeRTOLocked).                             *)
SilenceIsNoticed == up => silence <= ProbeRTO + 2 * ProbeInterval

(* A path whose probes are, from some time on, each answered before the    *)
(* next one leaves comes up and stays up, whatever happened before         *)
(* (OnProbeAck, clientProbeLoop).                                          *)
PathRecovers == <>[]~lagging => <>[]up

============================================================================
