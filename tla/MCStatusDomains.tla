---------------------------- MODULE MCStatusDomains ----------------------------
(* The codes compared: of every domain the ones its rules tell apart.      *)
EXTENDS StatusDomains, MappingTables

MCWin32Table == Win32Errnos
MCNtTable == NtErrnos
MCNtWin32Table == NtWin32s

MCQuickTable ==
  [success1 |-> <<"success">>,
   goaway |-> <<"permission_denied", "operation_not_permitted">>,
   denied |-> <<"permission_denied">>,
   partly |-> <<"success", "operation_not_permitted">>]

Errcs ==
  {"success", "permission_denied", "operation_not_permitted", "invalid_argument",
   "no_such_file_or_directory", "operation_not_supported", "operation_in_progress",
   "resource_unavailable_try_again", "unknown"}

PosixCodes ==
  {Posix(e) : e \in {"success", "permission_denied", "operation_not_permitted"}}
    \cup {GetAddrInfo(v) : v \in {"0", "EAI_FAMILY", "EAI_AGAIN", "EAI_SYSTEM", "EAI_BADEXTFLAGS"}}

Win32Values == {"ERROR_SUCCESS", "5", "57", "1f", "-1"}
NtValues ==
  {"STATUS_PENDING", "c0000022", "c000000d",
   "c0000001", "c022001c"}

WindowsCodes ==
  {Win32(v) : v \in Win32Values} \cup {Nt(v) : v \in NtValues}
    \cup {Com(Nt(v), "error") : v \in NtValues \ {"STATUS_PENDING"}}
    \cup {Com(Nt("STATUS_PENDING"), "ok")}
    \cup {Com(Win32(v), "error") : v \in {"5", "1f"}}
    \cup {Com(Win32("5"), "ok"), Com(Win32("ERROR_SUCCESS"), "error")}
    \cup {S_OK, Com(Empty, "ok"), Com(Empty, "error")}

SystemValues(p) ==
  IF p = "windows" THEN {"ERROR_SUCCESS", "5", "-1"}
  ELSE {"success", "permission_denied"}

MCFlatCodes(p) ==
  {Generic(e) : e \in Errcs}
    \cup {Http(v) : v \in {"200", "202", "403", "404", "410", "405", "500", "503"}}
    \cup {Quick(v) : v \in {"success1", "goaway", "denied", "partly", "error2"}}
    \cup {StdError("generic", e) : e \in {"success", "permission_denied"}}
    \cup {StdError("user", v) : v \in {"missing", "other"}}
    \cup {StdError("system", v) : v \in SystemValues(p)}
    \cup {BoostError("generic", "permission_denied"), BoostError("user", "missing")}
    \cup {BoostError("system", v) : v \in SystemValues(p)}
    \cup CASE p = "posix" -> PosixCodes
           [] p = "windows" -> WindowsCodes
           [] p = "neither" -> {}

(* The codes of the library's own domains. *)
MCShippedCodes(p) == {c \in MCFlatCodes(p) : c.dom # "quick"}
===============================================================================
