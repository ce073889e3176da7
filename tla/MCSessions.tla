----------------------------- MODULE MCSessions -----------------------------
(***************************************************************************)
(* Instances for TLC of what happens to a Session's input: it is stored    *)
(* (ContentCodec), admitted (Admission), delivered to the workflow         *)
(* (Orchestration), whose payloads are encoded (PayloadCodec) and whose    *)
(* tools may be MCP servers (McpTool).  They share no state: a behaviour   *)
(* is one of one of them, `part`, while the others stay as they start.     *)
(***************************************************************************)
EXTENDS Orchestration, TLC, Admission, PayloadCodec, McpTool, ContentCodec

CONSTANTS SessionPart,          \* the parts that are checked
          Small, Plain, Dense   \* payloads

VARIABLE part

-----------------------------------------------------------------------------
(* Values of the constants *)

\* A payload that fits, one that must be stored, and one that compresses well.
WireSizes == (Small :> 2) @@ (Plain :> 9) @@ (Dense :> 9)
ZstdSizes == (Small :> 3) @@ (Plain :> 8) @@ (Dense :> 3)

\* Bytes of texts: "a", "b", and a text on either side of each width of a head.
A == <<97>>
B == <<98>>
Long(n) == [i \in 1..n |-> 97]
DeclaredTool(name, version, input) ==
    [name |-> name, description |-> B, version |-> version, schema |-> input]
ToolLists ==
    {<<>>, <<DeclaredTool(A, <<>>, <<>>)>>,
     <<DeclaredTool(A, <<1>>, <<123, 32, 125>>), DeclaredTool(B, <<>>, <<>>)>>}
BodyOf(n, tools) == [name |-> A, modelProfile |-> B, instructions |-> Long(n), tools |-> tools]
SpecificationOf(revision, tools) ==
    [id |-> A, revisionID |-> B, revision |-> revision, name |-> A, modelProfile |-> B,
     instructions |-> A, tools |-> tools, createdAt |-> <<84, 49>>]
Revisions == {<<1>>, <<23>>, <<24>>, <<255>>, <<1, 0>>, <<1, 0, 0>>, <<1, 0, 0, 0, 0>>, [i \in 1..8 |-> 255]}
InputsOf ==
    {<<TextPart(A)>>, <<TextPart(Long(24)), ArtifactPart(A, B, <<0>>, A)>>,
     <<ArtifactPart(A, B, <<1, 0>>, A)>>, <<ArtifactPart(A, B, [i \in 1..8 |-> IF i = 1 THEN 127 ELSE 255], A)>>}
Documents ==
    [kind : {"body"}, value : {BodyOf(n, <<>>) : n \in {23, 24, 256}} \cup {BodyOf(1, tools) : tools \in ToolLists}]
        \cup [kind : {"specification"}, value : {SpecificationOf(r, <<>>) : r \in Revisions}
                                                   \cup {SpecificationOf(<<1>>, tools) : tools \in ToolLists}]
        \cup [kind : {"input"}, value : InputsOf]
EditBytes == {0, 1, 24, 97, 120, 255}

-----------------------------------------------------------------------------
(* The parts *)

SessionsInit ==
    /\ part \in SessionPart
    /\ OrchestrationInit /\ AdmissionInit /\ PayloadInit /\ McpInit
    /\ CodecInit /\ (part # "codec" => document = CHOOSE d \in Document : TRUE)

SessionsStep ==
    \/ part = "delivery" /\ OrchestrationNext
    \/ part = "admission" /\ AdmissionNext
    \/ part = "payload" /\ PayloadNext
    \/ part = "mcp" /\ McpNext
    \/ part = "codec" /\ CodecNext

SessionsNext ==
    /\ SessionsStep
    /\ UNCHANGED part
    /\ part # "delivery" => UNCHANGED allVars
    /\ part # "admission" => UNCHANGED admissionVars
    /\ part # "payload" => UNCHANGED payloadVars
    /\ part # "mcp" => UNCHANGED mcpVars
    /\ part # "codec" => UNCHANGED codecVars

SessionsSpec ==
    SessionsInit /\ [][SessionsNext]_<<allVars, admissionVars, payloadVars, mcpVars, codecVars, part>>

\* Five events without a fault (a Turn and a Session that are cancelled), or four with one.
SessionsScope == part = "delivery" => faults = 0 \/ Len(events) <= 4

Replicas == Permutations(Publisher)

\* What was handled or skipped is history that only SkippedIsDuplicate reads.
WithoutHistory ==
    <<session, turn, invocation, events, outbox, publisherVars, workflow, signals, signalled, faults>>

\* What may differ between two states of a part.
SessionsView ==
    <<part, CASE part = "delivery" -> WithoutHistory
              [] part = "admission" -> admissionVars
              [] part = "payload" -> payloadVars
              [] part = "mcp" -> mcpVars
              [] part = "codec" -> codecVars>>

-----------------------------------------------------------------------------
(* Properties. The configuration lists the components' own; these combine or confine *)
(* theirs to the parts in which they are evaluated.                                *)

\* A document is read as it was written or refused: it has one encoding (decodeX).
DocumentsAreCanonical == part = "codec" => ContentIsCanonical
=============================================================================
