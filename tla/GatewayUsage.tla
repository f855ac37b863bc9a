---------------------------- MODULE GatewayUsage ----------------------------
(***************************************************************************)
(* How one request served by the LiteLLM proxy becomes usage lines.  The   *)
(* connector's hook names the candidates of the route, the proxy tries     *)
(* them, and each attempt reaches the connector through a synchronous and  *)
(* an asynchronous callback.  The connector reads the token counters,      *)
(* which providers report in three conventions, makes them exclusive,      *)
(* attributes the attempt to a candidate and spools the event.  The worker *)
(* turns an event into usage lines and resolves the model it is charged to.*)
(*                                                                         *)
(* The images, seconds and embedding counters pass through unchanged and   *)
(* are left out.  Delivery from the spool is UsageDelivery's.              *)
(***************************************************************************)
EXTENDS Integers, Sequences, FiniteSets, SequencesExt, FiniteSetsExt

CONSTANTS
    MaxTokens,      \* tokens of one kind in one attempt
    MaxCandidates,  \* candidates of a route
    MaxAttempts,    \* attempts of the request, retries included
    MaxVaried,      \* attempts that may get any answer; later ones get Thorough
    None

VARIABLES
    request,    \* what the hook made of the request
    attempts,   \* what the proxy did, in order
    spool,      \* event id -> event
    normalized, \* event id -> usage lines and model, once the worker ran
    full        \* the spool refused an event

vars == <<request, attempts, spool, normalized, full>>

Models == 1..MaxCandidates

-----------------------------------------------------------------------------
(* What a provider did, and how it says so.                                *)

Counts == [uncached : 0..MaxTokens, read : 0..MaxTokens, write : 0..MaxTokens,
           output : 0..MaxTokens, reasoning : 0..MaxTokens]

(* A counter that is missing, a Boolean, negative or not a whole number.   *)
Unusable == -1

(* OpenAI's convention, which LiteLLM gives every provider: totals with    *)
(* their parts.  The payload's own totals may be unusable.                 *)
Totals(c, top) ==
    [prompt_tokens |-> IF top THEN c.uncached + c.read + c.write ELSE Unusable,
     usage_prompt_tokens |-> c.uncached + c.read + c.write,
     completion_tokens |-> IF top THEN c.output + c.reasoning ELSE Unusable,
     usage_completion_tokens |-> c.output + c.reasoning,
     cached_tokens |-> c.read,
     cache_creation_input_tokens |-> c.write,
     reasoning_tokens |-> c.reasoning]

(* Anthropic's: input without the cached part, thinking within the output. *)
Separate(c) ==
    [input_tokens |-> c.uncached,
     cache_read_input_tokens |-> c.read,
     cache_creation_input_tokens |-> c.write,
     output_tokens |-> c.output + c.reasoning]

(* Gemini's: input with the cached part, thoughts besides the output.      *)
Metadata(c) ==
    [prompt_token_count |-> c.uncached + c.read,
     cached_content_token_count |-> c.read,
     candidates_token_count |-> c.output,
     thoughts_token_count |-> c.reasoning]

(* What the counters of an answer say; a convention without a counter for  *)
(* a kind of tokens leaves that kind at zero, or within another.           *)
Answers ==
    {[provider |-> p, counts |-> c, fields |-> Totals(c, top)] :
        p \in {"openai", "anthropic"}, c \in Counts, top \in BOOLEAN}
    \cup {[provider |-> "anthropic", counts |-> c, fields |-> Separate(c)] :
        c \in {k \in Counts : k.reasoning = 0}}
    \cup {[provider |-> "gemini", counts |-> c, fields |-> Metadata(c)] :
        c \in {k \in Counts : k.write = 0}}

(* An answer with tokens of every kind.                                    *)
Thorough ==
    LET c == [k \in {"uncached", "read", "write", "output", "reasoning"} |-> MaxTokens]
    IN  [provider |-> "openai", counts |-> c, fields |-> Totals(c, TRUE)]

NoAnswer == [provider |-> "openai", fields |-> <<>>,
             counts |-> [uncached |-> 0, read |-> 0, write |-> 0, output |-> 0, reasoning |-> 0]]

-----------------------------------------------------------------------------
(* Reading the counters.                                                   *)

(* The fields a metric is looked for in, in this order.                    *)
Candidates ==
    [input |-> <<"prompt_tokens", "usage_prompt_tokens", "input_tokens", "prompt_token_count">>,
     output |-> <<"completion_tokens", "usage_completion_tokens", "output_tokens",
                  "candidates_token_count">>,
     read |-> <<"cached_tokens", "cache_read_input_tokens", "cached_content_token_count">>,
     write |-> <<"cache_creation_input_tokens">>,
     reasoning |-> <<"reasoning_tokens", "thoughts_token_count">>]

(* The first field that is there and holds a whole number, with its name.  *)
FirstMetric(names, fields) ==
    LET usable == {i \in DOMAIN names : /\ names[i] \in DOMAIN fields
                                        /\ fields[names[i]] \in Nat}
    IN  IF usable = {} THEN None
        ELSE [value |-> fields[names[Min(usable)]], source |-> names[Min(usable)]]

ExtractMetrics(fields) == [m \in DOMAIN Candidates |-> FirstMetric(Candidates[m], fields)]

(* The metric each bucket comes from.                                      *)
Bucketed == [uncached |-> "input", read |-> "read", write |-> "write", output |-> "output",
             reasoning |-> "reasoning"]

Value(metric) == IF metric = None THEN 0 ELSE metric.value

(* The buckets of the metrics that are there, and one request.             *)
Buckets(metrics, uncached, output) ==
    [k \in {"request"} \cup {b \in DOMAIN Bucketed : metrics[Bucketed[b]] # None} |->
        CASE k = "request" -> 1
          [] k = "uncached" -> uncached
          [] k = "output" -> output
          [] OTHER -> Value(metrics[Bucketed[k]])]

(* Mutant of ExclusiveUsage: thoughts are taken off the output as well.    *)
ExclusiveUsageThoughts(provider, metrics) ==
    LET cached == Value(metrics.read) + Value(metrics.write)
        total == Value(metrics.input)
        native == provider = "anthropic" /\ metrics.input # None
                  /\ metrics.input.source = "input_tokens"
        output == Value(metrics.output)
    IN  Buckets(metrics,
            IF native \/ total < cached THEN total ELSE total - cached,
            IF output < Value(metrics.reasoning) THEN output ELSE output - Value(metrics.reasoning))

(* A total that is smaller than its parts is left as it is.                *)
ExclusiveUsage(provider, metrics) ==
    LET cached == Value(metrics.read) + Value(metrics.write)
        total == Value(metrics.input)
        uncachedOnly == provider = "anthropic" /\ metrics.input # None
                        /\ metrics.input.source = "input_tokens"
        output == Value(metrics.output)
        reasoning == Value(metrics.reasoning)
        separate == metrics.reasoning # None /\ metrics.reasoning.source = "thoughts_token_count"
    IN  Buckets(metrics,
            IF uncachedOnly \/ total < cached THEN total ELSE total - cached,
            IF separate \/ output < reasoning THEN output ELSE output - reasoning)

-----------------------------------------------------------------------------
(* The request, and the event of an attempt.                               *)

(* The candidates of a route are different models; the names the proxy     *)
(* knows them by are all different, or two connections use the same.       *)
Routes ==
    UNION {{[i \in 1..n |-> [model |-> i, tag |-> i]], [i \in 1..n |-> [model |-> i, tag |-> 1]]} :
               n \in 1..MaxCandidates}

(* The caller's metadata.cp: it names the user under a usable context      *)
(* version, under none, or under one that is not or not at all.            *)
Contexts == {"usable", "unversioned", "unusable"}

(* With a snapshot the hook routes the request; without one, or without a  *)
(* route where a policy is not required, it goes on as it came.  The hook  *)
(* adds a context version where there is none.                             *)
ApplyToRequest(route, context, ids) ==
    /\ request = None
    /\ request' = [candidates |-> route, routed |-> route # <<>>, ids |-> ids,
                   context |-> IF route # <<>> /\ context = "unversioned"
                               THEN "usable" ELSE context]
    /\ UNCHANGED <<attempts, spool, normalized, full>>

(* The user is known: nothing of a context without a usable version is     *)
(* kept.                                                                   *)
ProjectContext(context) == context = "usable"

(* The first candidate with the tag the proxy called.                      *)
RoutedModel(tag) ==
    LET named == {i \in DOMAIN request.candidates : request.candidates[i].tag = tag}
    IN  IF named = {} THEN [model |-> None, index |-> 0, last |-> TRUE]
        ELSE [model |-> request.candidates[Min(named)].model, index |-> Min(named) - 1,
              last |-> Min(named) = Len(request.candidates)]

(* The last failed deployment that is not the one of this attempt.         *)
PreviousDeployment(n) ==
    LET others == {i \in 1..(n - 1) : attempts[i].deployment # attempts[n].deployment}
    IN  IF others = {} THEN None ELSE attempts[Max(others)].deployment

(* The attempt's own id comes before the id the proxy's attempts share.    *)
CallId(n) == IF request.ids THEN n ELSE 0

MapStandardPayload(n) ==
    LET a == attempts[n]
        routed == RoutedModel(a.tag)
    IN  [attempt |-> n, index |-> routed.index, model |-> routed.model, tag |-> a.tag,
         final |-> a.status = "success" \/ routed.last, status |-> a.status,
         fallbackFrom |-> PreviousDeployment(n),
         usage |-> ExclusiveUsage(a.answer.provider, ExtractMetrics(a.answer.fields))]

(* The proxy tries the first candidate, tries one again after a failure,   *)
(* or falls back to the next; it stops at a success.                       *)
Attempt(candidate, status, answer) ==
    LET n == Len(attempts)
        last == IF n = 0 THEN 0 ELSE attempts[n].candidate
        count == IF request.routed THEN Len(request.candidates) ELSE 1
    IN
    /\ n < MaxAttempts
    /\ n > 0 => attempts[n].status = "failure"
    /\ candidate \in ({last, last + 1} \ {0}) \cap 1..count
    /\ attempts' = Append(attempts,
           [candidate |-> candidate, deployment |-> candidate, status |-> status,
            tag |-> IF request.routed THEN request.candidates[candidate].tag ELSE None,
            answer |-> answer, callbacks |-> 0])
    /\ UNCHANGED <<request, spool, normalized, full>>

(* One of the two callbacks of an attempt: an event that cannot be built   *)
(* is dropped, one whose id is known is left alone, and a full spool       *)
(* refuses it.                                                             *)
Capture(n) ==
    LET named == ProjectContext(request.context)
        new == named /\ CallId(n) \notin DOMAIN spool
    IN
    /\ attempts[n].callbacks < 2
    /\ attempts' = [attempts EXCEPT ![n].callbacks = @ + 1]
    /\ \/ /\ spool' = IF new
                      THEN [i \in DOMAIN spool \cup {CallId(n)} |->
                               IF i = CallId(n) THEN MapStandardPayload(n) ELSE spool[i]]
                      ELSE spool
          /\ UNCHANGED full
       \/ new /\ full' = TRUE /\ UNCHANGED spool
    /\ UNCHANGED <<request, normalized>>

-----------------------------------------------------------------------------
(* The worker.                                                             *)

LineType == [uncached |-> "uncached_input_token", read |-> "cache_read_input_token",
             write |-> "cache_write_input_token", output |-> "output_token",
             reasoning |-> "reasoning_output_token", request |-> "request"]

(* A line for each bucket the event has.                                   *)
UsageLines(event) == {[type |-> LineType[k], quantity |-> event.usage[k]] : k \in DOMAIN event.usage}

(* The row of the model the event names, if it is still enabled; without a *)
(* model the event is unmapped.                                            *)
ResolveModel(event, enabled) == IF event.model \in enabled THEN event.model ELSE None

(* An administrator may have disabled models since the request.            *)
Normalize(id, enabled) ==
    /\ id \in DOMAIN spool \ DOMAIN normalized
    /\ normalized' = [i \in DOMAIN normalized \cup {id} |->
                    IF i = id THEN [lines |-> UsageLines(spool[id]), model |-> ResolveModel(spool[id], enabled)]
                    ELSE normalized[i]]
    /\ UNCHANGED <<request, attempts, spool, full>>

-----------------------------------------------------------------------------
Init ==
    /\ request = None /\ attempts = <<>>
    /\ spool = <<>> /\ normalized = <<>>
    /\ full = FALSE

Next ==
    \/ \E route \in Routes \cup {<<>>}, context \in Contexts, ids \in BOOLEAN :
           ApplyToRequest(route, context, ids)
    \/ /\ request # None
       /\ \E c \in Models :
              \/ \E answer \in (IF Len(attempts) < MaxVaried THEN Answers ELSE {Thorough}) :
                     Attempt(c, "success", answer)
              \/ Attempt(c, "failure", NoAnswer)
    \/ \E n \in DOMAIN attempts : Capture(n)
    \/ \E id \in 0..MaxAttempts, enabled \in {Models, {}} : Normalize(id, enabled)

Spec == Init /\ [][Next]_vars

-----------------------------------------------------------------------------
(* The request names its user in a context the connector accepts.          *)
Attributable == ProjectContext(request.context)

(* Every candidate has a name of its own at the proxy.                     *)
NamesDiffer == IsInjective([i \in DOMAIN request.candidates |-> request.candidates[i].tag])

(* What the connector spools about an attempt is what happened: whichever  *)
(* convention the provider counts in, the exclusive buckets are the tokens *)
(* of the attempt, none twice and none missing (mapper.py,                 *)
(* _exclusive_usage); and where the candidates' names differ the event     *)
(* carries the model that was called, its place in the route, and is final *)
(* exactly for a success or a failure of the last candidate.               *)
EventIsTrue(event) ==
    LET a == attempts[event.attempt]
    IN  /\ \A k \in DOMAIN Bucketed :
              a.answer.counts[k] = IF k \in DOMAIN event.usage THEN event.usage[k] ELSE 0
        /\ event.status = a.status
        /\ request.routed /\ NamesDiffer =>
              /\ event.model = request.candidates[a.candidate].model
              /\ event.index = a.candidate - 1
              /\ event.final <=> a.status = "success" \/ a.candidate = Len(request.candidates)
              /\ event.fallbackFrom # None => event.fallbackFrom < a.candidate

(* The two callbacks of an attempt, in either order and however late, give *)
(* one event, and attempts with an id of their own never share one: every  *)
(* captured attempt of an attributable request is in the spool under its   *)
(* id, unless the spool was full (callback.py, _capture).                  *)
OneEventEach ==
    \A n \in DOMAIN attempts :
        attempts[n].callbacks > 0 /\ request.ids /\ Attributable /\ ~full =>
            n \in DOMAIN spool /\ spool[n].attempt = n

(* The worker's lines add up to the tokens of the attempt and are charged  *)
(* to the model that served it or to none, also when the catalogue changed *)
(* in between (normalization.ts, stage-handlers.ts resolveModel).          *)
LinesAreTrue ==
    \A id \in DOMAIN normalized :
        LET event == spool[id]
            a == attempts[event.attempt]
            lines == normalized[id].lines
        IN  /\ \A k \in DOMAIN Bucketed :
                  LET own == {l \in lines : l.type = LineType[k]}
                  IN  a.answer.counts[k] = IF own = {} THEN 0 ELSE (CHOOSE l \in own : TRUE).quantity
            /\ [type |-> "request", quantity |-> 1] \in lines
            /\ Cardinality(lines) = Cardinality({l.type : l \in lines})
            /\ request.routed /\ NamesDiffer =>
                  normalized[id].model \in {None, request.candidates[a.candidate].model}

EventsAreTrue ==
    /\ \A id \in DOMAIN spool : EventIsTrue(spool[id])
    /\ OneEventEach /\ LinesAreTrue
=============================================================================
