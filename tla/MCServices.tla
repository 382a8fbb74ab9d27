------------------------------ MODULE MCServices ------------------------------
(***************************************************************************)
(* The stores and codecs around the loop, one at a time: a behaviour is    *)
(* one of `part`, and the others stay in one of their initial states.      *)
(***************************************************************************)
EXTENDS SessionLog, Credentials, ProviderStreams, TagParsers, ContextWindow, ArtifactVersions,
        LocalModel

VARIABLE part

Parts == {"sessions", "credentials", "streams", "parsers", "context", "artifacts", "models"}

servicesVars == <<part, sessionVars, credentialVars, streamVars, parserVars, windowVars,
                  artifactVars, modelVars>>

ServicesInit ==
  /\ part \in Parts
  /\ SessionInit /\ ArtifactInit
  /\ CredentialsInit /\ (part # "credentials" => stored = NoCredential)
  /\ StreamsInit /\ (part # "streams" => provider = "openai")
  /\ ParsersInit /\ (part # "parsers" => parser.kind = "think")
  /\ WindowInit /\ (part # "context" => transformer = "window" /\ ~cache.on)
  /\ LocalModelInit
  /\ part # "models" => home = CHOOSE h \in [Loads -> Processes] : TRUE

ServicesNext ==
  /\ UNCHANGED part
  /\ \/ part = "sessions" /\ SessionNext
     \/ part # "sessions" /\ UNCHANGED sessionVars
  /\ \/ part = "credentials" /\ CredentialsNext
     \/ part # "credentials" /\ UNCHANGED credentialVars
  /\ \/ part = "streams" /\ StreamsNext
     \/ part # "streams" /\ UNCHANGED streamVars
  /\ \/ part = "parsers" /\ ParsersNext
     \/ part # "parsers" /\ UNCHANGED parserVars
  /\ \/ part = "context" /\ WindowNext
     \/ part # "context" /\ UNCHANGED windowVars
  /\ \/ part = "artifacts" /\ ArtifactNext
     \/ part # "artifacts" /\ UNCHANGED artifactVars
  /\ \/ part = "models" /\ LocalModelNext
     \/ part # "models" /\ UNCHANGED modelVars

ServicesSpec == ServicesInit /\ [][ServicesNext]_servicesVars

-----------------------------------------------------------------------------
(* However a provider cuts its answer into events and tokens, the blocks   *)
(* the loop accumulates are complete calls, in an order the accumulator    *)
(* accepts, and the tags of a local model are found wherever the token     *)
(* boundaries lie (accumulate_message, the tag parsers).                   *)
StreamsSound == CallsComplete /\ StreamAccepted /\ TokenBoundariesHidden

(* However often the history is compacted, calls stay with their results   *)
(* and dropped messages are in exactly one version                         *)
(* (compact_sliding_window_with, VersioningTransformer::transform).        *)
ContextKept == PairsKept /\ VersionsComplete
=============================================================================
