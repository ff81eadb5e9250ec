---------------------------- MODULE HttpResponse ----------------------------
(***************************************************************************)
(* The response of @ipare/http and what the hosts send of it: the header   *)
(* dictionary, the methods that set a result, what an error becomes, the   *)
(* type and length HttpStartup adds, and the three ways out of native,     *)
(* alifc and lambda.                                                       *)
(*                                                                         *)
(* A header key is <<name, spelling>>: two keys name the same header when  *)
(* they agree up to case.  A dictionary is the sequence of its entries in  *)
(* the order of insertion; a value is a sequence of strings, one of length *)
(* 1 standing for the string alone too.  A body is a record of its type    *)
(* and its content; a length is symbolic, <<type, content>> of the body it *)
(* was taken from.                                                         *)
(***************************************************************************)
EXTENDS Integers, Sequences, SequencesExt

\* Text.  A prover does not know of a string that it is one.
Strings == STRING
Texts ==
  {"", "-", "x", "X", "vary", "Vary", "access-control-allow-origin",
   "Access-Control-Allow-Origin", "access-control-allow-methods", "Access-Control-Allow-Methods",
   "access-control-expose-headers", "Access-Control-Expose-Headers", "allow", "Allow", "location",
   "content-type", "content-length", "Content-Length", "Origin", "GET", "HEAD", "POST", "file",
   "here", "declared", "text", "html", "json", "bin", "whole", "broken", "decoded", "http", "error",
   "primitive", "undefined", "null", "zero", "string", "number", "object", "buffer", "stream"}
ASSUME TextAssumption == Texts \subseteq Strings

Bodies ==
  [t : {"undefined", "null", "zero", "string", "number", "object", "buffer", "stream"}, v : Strings]
Entry == [key : Strings \X Strings, value : Seq(Strings)]
Response == [status : Nat, headers : Seq(Entry), body : Bodies]

Undefined == [t |-> "undefined", v |-> "-"]
Body(t, v) == [t |-> t, v |-> v]
\* What JavaScript takes for false: undefined, null, "", 0 and false.
Falsy(b) == b.t \in {"undefined", "null", "zero"} \/ b = Body("string", "")

-----------------------------------------------------------------------------
SameHeader(k, l) == k[1] = l[1]

\* The first entry of that name, 0 when there is none.
HasHeader(dict, key) == SelectInSeq(dict, LAMBDA e : SameHeader(e.key, key))
GetHeader(dict, key) ==
  LET i == HasHeader(dict, key) IN IF i = 0 THEN <<>> ELSE dict[i].value

\* Assigns to the key as it is spelt, next to another spelling of the name.
SetHeader(dict, key, value) ==
  LET i == SelectInSeq(dict, LAMBDA e : e.key = key)
  IN CASE value = <<>> -> dict
       [] value # <<>> /\ i = 0 -> Append(dict, [key |-> key, value |-> value])
       [] OTHER -> [dict EXCEPT ![i].value = value]
SetHeaders(dict, headers) ==
  LET set[n \in 0 .. Len(headers)] ==
        IF n = 0 THEN dict ELSE SetHeader(set[n - 1], headers[n].key, headers[n].value)
  IN set[Len(headers)]
RemoveHeader(dict, key) ==
  LET i == HasHeader(dict, key) IN IF i = 0 THEN dict ELSE RemoveAt(dict, i)

ContentType   == <<"content-type", "content-type">>
ContentLength == <<"content-length", "content-length">>
Location      == <<"location", "location">>

-----------------------------------------------------------------------------
\* A response nobody wrote to: status has the default of its getter.
NewResponse == [status |-> 404, headers |-> <<>>, body |-> Undefined]

SetResult(res, status, body) ==
  [res EXCEPT !.status = status,
              !.body = IF body.t \in {"undefined", "null"} THEN @ ELSE body]
\* Mutant: an error starts a new response.
SetErrorAnew(res, status) ==
  [NewResponse EXCEPT !.status = status, !.body = Body("object", "error")]

SetError(res, status) == [res EXCEPT !.status = status, !.body = Body("object", "error")]

SuccessStatus ==
  [ok |-> 200, created |-> 201, accepted |-> 202, noContent |-> 204, partialContent |-> 206,
   redirect |-> 302]
ErrorStatus ==
  [badRequest |-> 400, unauthorized |-> 401, forbidden |-> 403, notFound |-> 404,
   methodNotAllowed |-> 405, notAcceptable |-> 406, requestTimeout |-> 408, conflict |-> 409,
   gone |-> 410, preconditionFailed |-> 412, requestTooLong |-> 413,
   unsupportedMediaType |-> 415, imATeapot |-> 418, misdirected |-> 421,
   unprocessableEntity |-> 422, internalServerError |-> 500, notImplemented |-> 501,
   badGateway |-> 502, serviceUnavailable |-> 503, gatewayTimeout |-> 504,
   httpVersionNotSupported |-> 505]

\* ok(body), created(location, body), noContent(), redirect(location), ...
Success(res, name, body, location) ==
  LET base == IF name = "redirect" THEN [res EXCEPT !.status = 302]
              ELSE SetResult(res, SuccessStatus[name],
                             IF name = "noContent" THEN Undefined ELSE body)
  IN IF name \in {"created", "redirect"}
     THEN [base EXCEPT !.headers = SetHeader(@, Location, location)] ELSE base
\* badRequest(body), badRequestMsg(), ...
Failure(res, name, body) == SetResult(res, ErrorStatus[name], body)
FailureMsg(res, name) == SetError(res, ErrorStatus[name])

-----------------------------------------------------------------------------
(***************************************************************************)
(* A thrown value: an HttpException, another Error, a plain object or a    *)
(* primitive.  "through" is its breakthrough flag.                         *)
(***************************************************************************)
Thrown == [class : Strings, status : Nat, headers : Seq(Entry), through : BOOLEAN]

HttpException(status, headers) ==
  [class |-> "http", status |-> status, headers |-> headers, through |-> FALSE]
OtherError(class) == [class |-> class, status |-> 0, headers |-> <<>>, through |-> FALSE]
InternalServerError == HttpException(500, <<>>)

\* The catchError of initCatchError: anything else is first caught as a 500.
Told(err) == IF err.class = "http" THEN err ELSE InternalServerError
\* Mutant: a status somebody set is kept.
CatchResponseUnset(res, err) ==
  [SetError(res, IF res.status = 404 THEN Told(err).status ELSE res.status) EXCEPT
     !.headers = SetHeaders(@, Told(err).headers)]

CatchResponse(res, err) ==
  [SetError(res, Told(err).status) EXCEPT !.headers = SetHeaders(@, Told(err).headers)]
CatchErrors(errors, err) ==
  errors \o (IF err.class = "http" THEN <<err>> ELSE <<InternalServerError, err>>)

-----------------------------------------------------------------------------
(* HttpStartup.#setType *)
LengthOf(b) == <<b.t, b.v>>
TypeOf(b) == CASE b.t \in {"buffer", "stream"} -> "bin"
               [] b.t = "string" -> IF b.v = "markup" THEN "html" ELSE "text"
               [] OTHER -> "json"

\* Mutant: the headers of a body that was dropped stay.
SetTypeOnly(res) ==
  IF Falsy(res.body) THEN res
  ELSE [res EXCEPT !.headers =
          SetHeader(SetHeader(@, ContentLength, LengthOf(res.body)), ContentType, <<TypeOf(res.body)>>)]

SetType(res) ==
  LET b == res.body
      bare == RemoveHeader(RemoveHeader(res.headers, ContentType), ContentLength)
      sized == IF b.t = "stream" \/ HasHeader(res.headers, ContentLength) # 0 THEN res.headers
               ELSE SetHeader(res.headers, ContentLength, LengthOf(b))
      typed == IF HasHeader(res.headers, ContentType) # 0 THEN sized
               ELSE SetHeader(sized, ContentType, <<TypeOf(b)>>)
  IN [res EXCEPT !.headers = IF Falsy(b) THEN bare ELSE typed]

-----------------------------------------------------------------------------
(***************************************************************************)
(* What leaves the host.  setHeader of Node and of alifc takes a name in   *)
(* any spelling, the last one wins.  "json" and "base64" are the           *)
(* conversions the host makes; a stream that breaks ("broken") leaves the  *)
(* answer of native open and rejects run() of the other two, one opened    *)
(* with an encoding ("decoded") is beyond alifc.                           *)
(***************************************************************************)
WireHeaders(dict, sent) ==
  {<<dict[i].key[1], dict[i].value>> : i \in {j \in sent :
     \A k \in sent : k > j => ~SameHeader(dict[k].key, dict[j].key)}}
NonEmpty(dict) == {i \in DOMAIN dict : dict[i].value # <<"">>}

Wire(end, res, sent, enc, v) ==
  [end |-> end, status |-> res.status, headers |-> WireHeaders(res.headers, sent),
   enc |-> enc, v |-> v]
Broken(b) == b = Body("stream", "broken")
\* A stream with an encoding, the text's own, which gives strings for buffers.
Decoded(b) == b = Body("stream", "decoded")

\* Node sends no body with these, whatever is written.
Bodiless(res, method) == res.status \in {204, 304} \/ method = "HEAD"
\* What a client makes of an answer that may have no body.
Seen(answer, bare) == IF bare THEN [answer EXCEPT !.enc = "raw", !.v = ""] ELSE answer

\* Mutant: a string goes out as JSON.
NativeAnswerJson(res, method) ==
  Seen(Wire(IF Broken(res.body) THEN "open" ELSE "sent", res, NonEmpty(res.headers),
            IF res.body.t \in {"stream", "buffer"} THEN "raw" ELSE "json", res.body.v),
       Bodiless(res, method))

NativeAnswer(res, method) ==
  LET b == res.body
  IN Seen(Wire(IF Broken(b) THEN "open" ELSE "sent", res, NonEmpty(res.headers),
               IF Falsy(b) \/ b.t \in {"stream", "buffer", "string"} THEN "raw" ELSE "json",
               IF Falsy(b) THEN "" ELSE b.v),
          Bodiless(res, method))
\* Buffer.concat of strings throws in a listener, where nobody catches it.
AlifcAnswer(res) ==
  LET b == res.body
  IN Wire(CASE Broken(b) -> "rejected" [] Decoded(b) -> "uncaught" [] OTHER -> "sent",
          res, NonEmpty(res.headers),
          IF ~Falsy(b) /\ b.t \notin {"stream", "buffer", "string"} THEN "json" ELSE "raw",
          IF Falsy(b) THEN "" ELSE b.v)
\* The struct; the gateway undoes base64.  A bare number goes out as it is.
LambdaAnswer(res) ==
  LET b == res.body
  IN Wire(IF Broken(b) THEN "rejected" ELSE "sent", res, DOMAIN res.headers,
          IF b.t = "object" THEN "json" ELSE "raw",
          IF b.t \in {"undefined", "null"} THEN "" ELSE b.v)
=============================================================================
