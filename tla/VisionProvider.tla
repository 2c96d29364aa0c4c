----------------------------- MODULE VisionProvider -----------------------------
(* What the VLM service (experiments/vlm/service.py) makes of the reply of a     *)
(* provider: the adapters of providers/vision, the limits of a request, the      *)
(* parsing of a text, the errors and which of them are repeated.  A time is in   *)
(* half seconds, a size in megabytes.                                            *)
EXTENDS Integers

CONSTANTS
  Error,           \* an error instead of an assessment
  Missing,         \* a field that a text lacks, or has with an unknown value
  Configured,      \* the providers with an address or a key, and a model
  VlmTimeout,      \* settings.vlm_timeout_seconds
  LocalTimeout,    \* settings.local_vlm_timeout_seconds
  MaxRetries,      \* settings.vlm_max_retries
  MaxFrames,       \* settings.vlm_max_frames
  LocalMaxImages,  \* settings.local_vlm_max_images
  MaxImage,        \* settings.vlm_max_single_image_bytes
  MaxTotal         \* settings.vlm_max_total_image_bytes

Classes == {"LIVE", "SCREEN_REPLAY", "PRINT_ATTACK", "QUALITY_FAILURE", "UNCERTAIN"}
Counts == {"ZERO", "ONE", "MULTIPLE", "UNCERTAIN"}
Seconds == {"NONE", "BACKGROUND", "INTERFERING", "UNCERTAIN"}
Assessments == [class : Classes, count : Counts, second : Seconds]

ASSUME ProviderAssumption ==
  /\ VlmTimeout \in Nat /\ LocalTimeout \in Nat /\ MaxRetries \in Nat
  /\ MaxFrames \in Nat /\ LocalMaxImages \in Nat /\ MaxImage \in Nat /\ MaxTotal \in Nat
  /\ Error \notin Assessments
  /\ Missing \notin Classes \cup Counts \cup Seconds

-------------------------------------------------------------------------------
(* The adapters.                                                                *)

Gemini == [images |-> 16, bytes |-> 20, timeout |-> VlmTimeout, retries |-> MaxRetries]

Groq == [images |-> 8, bytes |-> 20, timeout |-> VlmTimeout, retries |-> MaxRetries]

OpenRouter == [images |-> 16, bytes |-> 20, timeout |-> VlmTimeout, retries |-> MaxRetries]

Local ==
  [images |-> LocalMaxImages, bytes |-> 20, timeout |-> LocalTimeout, retries |-> MaxRetries]

\* It answers at once, or two seconds after the timeout, and repeats nothing.
Mock == [images |-> 16, bytes |-> 50, timeout |-> VlmTimeout + 4, retries |-> 0]

Providers == {"gemini", "groq", "openrouter", "local", "mock"}

Adapter(p) ==
  CASE p = "gemini" -> Gemini
    [] p = "groq" -> Groq
    [] p = "openrouter" -> OpenRouter
    [] p = "local" -> Local
    [] p = "mock" -> Mock

Assessment(class, count, second) == [class |-> class, count |-> count, second |-> second]

-------------------------------------------------------------------------------
(* Requests: frames are so many images of one size.                             *)

\* A strategy and its number of frames.
FrameCounts == {1, 3}

TooMany(p, frames) == frames.count > Adapter(p).images \/ frames.count > MaxFrames

TooLarge(p, frames) ==
  \/ frames.size > MaxImage \/ frames.count * frames.size > MaxTotal
  \/ frames.count * frames.size > Adapter(p).bytes

\* What the service refuses before it calls the provider.
Refused(p, frames) ==
  \/ p \notin Configured \cup {"mock"}
  \/ frames.count \notin FrameCounts
  \/ TooMany(p, frames) \/ TooLarge(p, frames)

-------------------------------------------------------------------------------
(* Replies: a text, an empty or misshaped answer, an HTTP status, a timeout, a   *)
(* broken connection, or another exception of the client.                       *)

Texts ==
  [class : Classes \cup {Missing}, count : Counts \cup {Missing},
   second : Seconds \cup {Missing}, conforms : BOOLEAN]
AllReplies ==
  [kind : {"text", "empty", "status", "timeout", "network", "other"}, status : Nat,
   text : Texts]

HttpError(status) ==
  CASE status \in {401, 403} -> "PROVIDER_AUTH_ERROR"
    [] status = 429 -> "PROVIDER_RATE_LIMITED"
    [] status = 408 \/ status >= 500 -> "PROVIDER_UNAVAILABLE"
    [] status \in (400..499) \ {401, 403, 408, 429} -> "PROVIDER_BAD_REQUEST"
    [] status < 400 -> "UNKNOWN_PROVIDER_ERROR"

\* Its client's own exceptions: one without a status is unknown, a timeout too.
GeminiError(status) ==
  CASE status \in {401, 403} -> "PROVIDER_AUTH_ERROR"
    [] status = 429 -> "PROVIDER_RATE_LIMITED"
    [] status \in {408, 500, 502, 503, 504} -> "PROVIDER_UNAVAILABLE"
    [] status \in (400..499) \ {401, 403, 408, 429} -> "PROVIDER_BAD_REQUEST"
    [] status < 400 \/ (status >= 500 /\ status \notin {500, 502, 503, 504}) ->
         "UNKNOWN_PROVIDER_ERROR"

TransportError(reply) ==
  CASE reply.kind = "timeout" -> "PROVIDER_TIMEOUT"
    [] reply.kind = "network" -> "PROVIDER_UNAVAILABLE"
    [] reply.kind = "status" -> HttpError(reply.status)
    [] reply.kind = "other" -> "UNKNOWN_PROVIDER_ERROR"

\* Every field is there and known; the others conform, and there are no more.
Complete(text) ==
  /\ text.class # Missing /\ text.count # Missing /\ text.second # Missing
  /\ text.conforms

\* The assessments the mock can be told to answer.
MockAnswers ==
  {Assessment("SCREEN_REPLAY", "ONE", "NONE"), Assessment("PRINT_ATTACK", "ONE", "NONE"),
   Assessment("UNCERTAIN", "UNCERTAIN", "UNCERTAIN"),
   Assessment("QUALITY_FAILURE", "UNCERTAIN", "UNCERTAIN")}
  \cup {Assessment("LIVE", s[1], s[2]) :
          s \in {<<"ONE", "NONE">>, <<"MULTIPLE", "INTERFERING">>,
                 <<"MULTIPLE", "BACKGROUND">>, <<"MULTIPLE", "UNCERTAIN">>,
                 <<"ONE", "BACKGROUND">>, <<"MULTIPLE", "NONE">>,
                 <<"UNCERTAIN", "BACKGROUND">>, <<"ZERO", "NONE">>,
                 <<"UNCERTAIN", "UNCERTAIN">>}}

\* The mock answers no more than what it can be told to.
MayReply(p, reply) ==
  p = "mock" =>
    \/ reply.kind \in {"timeout", "empty"}
    \/ reply.kind = "status" /\ reply.status = 401
    \/ reply.kind = "text"
         /\ (Complete(reply.text) =>
               Assessment(reply.text.class, reply.text.count, reply.text.second)
                 \in MockAnswers)

\* The error code of a reply.
Code(p, reply) ==
  IF reply.kind = "text"
    THEN IF Complete(reply.text) THEN "NONE" ELSE "SCHEMA_VALIDATION_ERROR"
  ELSE IF reply.kind = "empty" THEN "PROVIDER_RESPONSE_ERROR"
  ELSE IF p = "gemini"
    THEN IF reply.kind = "status" THEN GeminiError(reply.status)
         ELSE "UNKNOWN_PROVIDER_ERROR"
  ELSE TransportError(reply)

Retryable(code) ==
  code \in {"PROVIDER_RATE_LIMITED", "PROVIDER_UNAVAILABLE", "PROVIDER_TIMEOUT"}

\* The delay after a failed call.
Delay(attempt) == 2 ^ attempt

\* After so many repetitions, the call is made once more.
Repeated(p, frames, reply, tries) ==
  ~Refused(p, frames) /\ Retryable(Code(p, reply)) /\ tries < Adapter(p).retries

\* Mutant: without a count, one person is there.
BugEvaluated(p, frames, reply) ==
  LET t == reply.text IN
  IF ~Refused(p, frames) /\ Code(p, [reply EXCEPT !.text.count = "ONE"]) = "NONE"
    THEN Assessment(t.class, IF t.count = Missing THEN "ONE" ELSE t.count, t.second)
  ELSE Error

\* The result of the service for the last reply.
Evaluated(p, frames, reply) ==
  IF ~Refused(p, frames) /\ Code(p, reply) = "NONE"
    THEN Assessment(reply.text.class, reply.text.count, reply.text.second)
  ELSE Error
===============================================================================
