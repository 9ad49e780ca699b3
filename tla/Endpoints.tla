----------------------------- MODULE Endpoints -----------------------------
(***************************************************************************)
(* The generated per-endpoint wrappers of class Api (src/swag_docs/Api.ts, *)
(* lines 669-1391).  Each wrapper is a call site of HttpClient.request     *)
(* with a literal path, method, query, body, content type and response     *)
(* format, followed by the caller's RequestParams spread last.             *)
(*                                                                         *)
(* The model keeps, for each wrapper, only what the client's control flow *)
(* tells apart: whether it passes a query object, whether it passes a      *)
(* body, its content type and its response format.  Paths, methods and    *)
(* schemas do not change any state of the client and are left out; the    *)
(* sets below therefore collapse wrappers of the same shape.               *)
(***************************************************************************)

\* The ContentType enum (Api.ts 453-459); only Json is used by the wrappers.
ContentTypes == {"application/json", "application/vnd.api+json",
                 "multipart/form-data", "application/x-www-form-urlencoded",
                 "text/plain"}

\* The shape of one wrapper: query and body are TRUE when the wrapper
\* passes them to request.
Shape(q, b) == [query |-> q, body |-> b, type |-> "application/json",
                format |-> "json"]

\* account: accountList (query), accountCreate, checkCreate, accountUpdate
\* (body), accountDetail, accountDelete, cancelCreate, resendCreate (none).
AccountEndpoints == {Shape(TRUE, FALSE), Shape(FALSE, TRUE), Shape(FALSE, FALSE)}

\* admin: accountList, accountCountList (query), accountCreate,
\* accountUpdate (body), accountDetail (none), testUserCreate (query and body).
AdminEndpoints == {Shape(TRUE, FALSE), Shape(FALSE, TRUE), Shape(FALSE, FALSE),
                   Shape(TRUE, TRUE)}

\* api: accountDetail (none).
ApiEndpoints == {Shape(FALSE, FALSE)}

\* auth: emailUpdate, passwordUpdate, passwordSetCreate, verifyResendCreate.
AuthEndpoints == {Shape(FALSE, TRUE)}

\* me: getMe (none).
MeEndpoints == {Shape(FALSE, FALSE)}

\* password: checkList (query), resetCreate, resetSendCreate (body).
PasswordEndpoints == {Shape(TRUE, FALSE), Shape(FALSE, TRUE)}

\* signup: signupCreate, oauthCreate (body).
SignupEndpoints == {Shape(FALSE, TRUE)}

\* verify: emailCreate, inviteCreate (body).
VerifyEndpoints == {Shape(FALSE, TRUE)}

\* Every shape a generated wrapper hands to request.
Descriptors == AccountEndpoints \cup AdminEndpoints \cup ApiEndpoints
               \cup AuthEndpoints \cup MeEndpoints \cup PasswordEndpoints
               \cup SignupEndpoints \cup VerifyEndpoints

(***************************************************************************)
(* A wrapper builds { path, method, query, body, type, format: "json",     *)
(* ...params }: a key present in the caller's params, even with the value *)
(* undefined, overrides the wrapper's literal.  unset marks a key the      *)
(* caller did not pass.                                                    *)
(***************************************************************************)
Spread(literal, param, unset) == IF param = unset THEN literal ELSE param

====
