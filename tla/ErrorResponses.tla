--------------------------- MODULE ErrorResponses ---------------------------
(***************************************************************************)
(* From an error to the status of the response: what handlers send through *)
(* JSONErrorResponse, and what the ErrorHandler middleware sends for an    *)
(* error that nobody has handled, a recovered panic for one.               *)
(*                                                                         *)
(* Sources: jsonapi/jsonapi_utility.go, jsonapi/error_handler.go and       *)
(* errors/errors.go.  No state.                                            *)
(***************************************************************************)
EXTENDS Naturals

OK                  == 200
NotModified         == 304
BadRequest          == 400
Unauthorized        == 401
Forbidden           == 403
NotFound            == 404
Conflict            == 409
InternalServerError == 500

(* The type of an error's cause: one of this service, goa's, or another.   *)
(* `status' is what a goa.ServiceError carries, 500 for all others.        *)
ErrorType ==
  {"NotFoundError", "ConversionError", "BadParameterError",
   "VersionConflictError", "DataConflictError", "InternalError",
   "UnauthorizedError", "ForbiddenError", "goa.ServiceError", "error"}

Error == [type : ErrorType, status : Nat]

NewUnauthorizedError == [type |-> "UnauthorizedError",
                         status |-> InternalServerError]

PlainError == [type |-> "error", status |-> InternalServerError]

(* A plain error has no status of its own: it becomes a 500, as a          *)
(* ServiceError becomes what it says.                                      *)
ErrorToJSONAPIError_Forbidden(err) ==   \* mistake: 403 where it is 401
  IF err.type = "UnauthorizedError" THEN Forbidden ELSE err.status

ErrorToJSONAPIError(err) ==
  CASE err.type = "NotFoundError"                                -> NotFound
    [] err.type \in {"ConversionError", "BadParameterError"}     -> BadRequest
    [] err.type \in {"VersionConflictError", "DataConflictError"} -> Conflict
    [] err.type = "InternalError"     -> InternalServerError
    [] err.type = "UnauthorizedError" -> Unauthorized
    [] err.type = "ForbiddenError"    -> Forbidden
    [] OTHER                          -> err.status

(* The statuses that both actions of design/features.go declare, for which *)
(* their contexts have a method.                                           *)
FeaturesResponses ==
  {OK, NotModified, BadRequest, Unauthorized, InternalServerError}

Nothing == 0   \* the handler returns without having sent a response

JSONErrorResponse(responses, err) ==
  LET status == ErrorToJSONAPIError(err)
  IN  IF status \in {BadRequest, NotFound, Unauthorized, Forbidden, Conflict}
      THEN IF status \in responses THEN status ELSE Nothing
      ELSE InternalServerError

(* The middleware, verbose as main.go installs it: the status of a         *)
(* ServiceError wins over that of ErrorToJSONAPIErrors, which is the same. *)
ErrorHandler(err) == ErrorToJSONAPIError(err)

(* Recover sits below ErrorHandler and makes an error of a panic.          *)
Recovered == ErrorHandler(PlainError)
=============================================================================
