--------------------------------- MODULE Routes --------------------------------
(***************************************************************************)
(* The routes of the controllers: what they act on, the guard on who sends *)
(* the request ("none", "any" token, "customer", which lets administrators *)
(* pass, or "admin") and the privileges an administrator needs for it.     *)
(***************************************************************************)

PrivilegeCode ==
  {"VIEW_APPOINTMENTS", "MANAGE_CAPABILITIES", "MANAGE_BAYS", "MANAGE_TECHNICIANS",
   "MANAGE_DEALERSHIPS", "MANAGE_SERVICE_TYPES", "MANAGE_SKILLS", "MANAGE_ADMINS"}

Route(on, ops, guard, needs) ==
  {[on |-> on, op |-> op, guard |-> guard, needs |-> needs] : op \in ops}

Reads  == {"list", "get"}
Writes == {"create", "update", "delete"}

ReferenceData(on, code) == Route(on, Reads, "none", {}) \cup Route(on, Writes, "admin", {code})

CapabilitiesController == ReferenceData("capabilities", "MANAGE_CAPABILITIES")
SkillsController       == ReferenceData("skills", "MANAGE_SKILLS")
DealershipsController  == ReferenceData("dealership", "MANAGE_DEALERSHIPS")
ServiceTypesController == ReferenceData("service", "MANAGE_SERVICE_TYPES")
ServiceBaysController  == ReferenceData("bay", "MANAGE_BAYS")
TechniciansController  == ReferenceData("tech", "MANAGE_TECHNICIANS")

AdminsController      == Route("admin", Reads \cup Writes, "admin", {"MANAGE_ADMINS"})
AdminGroupsController == Route("group", Reads \cup Writes, "admin", {"MANAGE_ADMINS"})

AdminPrivilegesController ==
  Route("privileges", {"list", "create", "delete"}, "admin", {"MANAGE_ADMINS"})

AuthController ==
  Route("customer", {"register", "login"}, "none", {})
  \cup Route("admin", {"login"}, "none", {})
  \cup Route("customer", {"me"}, "any", {})

CustomersController == Route("customer", {"list", "vehicles"}, "none", {})
HealthController    == Route("health", {"get"}, "none", {})

(* `list` asks for the privilege in its handler, of administrators only. *)
AppointmentsController ==
  Route("appointments", {"create", "probe", "slots"}, "none", {})
  \cup Route("appointments", {"mine", "get", "cancel", "reschedule"}, "customer", {})
  \cup Route("appointments", {"list"}, "customer", {"VIEW_APPOINTMENTS"})
  \cup Route("watches", {"create", "list", "cancel"}, "customer", {})

AllRoutes ==
  CapabilitiesController \cup SkillsController \cup DealershipsController
  \cup ServiceTypesController \cup ServiceBaysController \cup TechniciansController
  \cup AdminsController \cup AdminGroupsController \cup AdminPrivilegesController
  \cup AuthController \cup CustomersController \cup AppointmentsController
  \cup HealthController

(* No route asks for another code, and each code is asked for.             *)
ASSUME CodesAssumption == UNION {x.needs : x \in AllRoutes} = PrivilegeCode

===============================================================================
