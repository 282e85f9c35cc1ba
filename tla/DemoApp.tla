------------------------------ MODULE DemoApp -------------------------------
(***************************************************************************)
(* The protected application, app/app.py: what it answers to a request     *)
(* nginx forwards, by the path and by the role in the X-ZTLab-Clearance    *)
(* header.  It keeps no state, so a request is a function of the two.      *)
(***************************************************************************)
EXTENDS Integers

\* The label of each zone of the application.
DATA_CLASSIFICATIONS ==
    [p \in {"/public", "/sensitive", "/api/data", "/admin"} |->
        CASE p = "/public" -> "PUBLIC"
          [] p = "/sensitive" -> "CONFIDENTIAL"
          [] p = "/api/data" -> "INTERNAL"
          [] p = "/admin" -> "RESTRICTED"]

\* The data objects, with the label of each.
DATA_OBJECTS ==
    [public_announcement |-> "PUBLIC", employee_records |-> "CONFIDENTIAL",
     api_config |-> "INTERNAL", encryption_keys |-> "RESTRICTED"]

Objects == DOMAIN DATA_OBJECTS

CLEARANCE_LEVELS == [admin |-> 3, devops |-> 2, user |-> 1, anonymous |-> 0]

CLASSIFICATION_LEVELS ==
    [RESTRICTED |-> 3, CONFIDENTIAL |-> 2, INTERNAL |-> 1, PUBLIC |-> 0, UNCLASSIFIED |-> 0]

Labels == DOMAIN CLASSIFICATION_LEVELS

get_classification_for_path(path) ==
    IF path \in DOMAIN DATA_CLASSIFICATIONS THEN DATA_CLASSIFICATIONS[path] ELSE "UNCLASSIFIED"

\* header: the role the header names, "" when there is none.
get_caller_clearance(header) ==
    IF header \in DOMAIN CLEARANCE_LEVELS THEN CLEARANCE_LEVELS[header] ELSE 0

clearance_sufficient(header, o) ==
    get_caller_clearance(header) >= CLASSIFICATION_LEVELS[DATA_OBJECTS[o]]

\* A response carries the label of its path, whatever its body is.
Response(status, objects, path) ==
    [status |-> status, objects |-> objects, label |-> get_classification_for_path(path)]

public == Response(200, {}, "/public")
sensitive == Response(200, {}, "/sensitive")

\* Mutant of api_data: every object, under the label of the most sensitive.
api_data_unfiltered(header) == Response(200, Objects, "/admin")

api_data(header) ==
    Response(200, {o \in Objects : clearance_sufficient(header, o)}, "/api/data")

api_data_object(header, o) ==
    IF clearance_sufficient(header, o)
    THEN Response(200, {o}, "/api/data")
    ELSE Response(403, {}, "/api/data")

\* The answers to requests below a location of nginx: the route itself, an
\* object of the data API, or no such route or object.
responses(path, header) ==
    {Response(404, {}, path)} \cup
    CASE path = "/public" -> {public}
      [] path = "/sensitive" -> {sensitive}
      [] path = "/api/data" ->
            {api_data(header)} \cup {api_data_object(header, o) : o \in Objects}

=============================================================================
