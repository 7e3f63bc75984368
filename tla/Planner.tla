------------------------------- MODULE Planner -------------------------------
(***************************************************************************)
(* What a drive can be asked to do and what a job asks of it: the          *)
(* capability probe (backend/hw/capabilities.py), the wipe standards       *)
(* (patterns.py) and the plan (planner.py), as pure operators.             *)
(*                                                                         *)
(* A drive is a record [transport, type, caps, ...] whose caps are what    *)
(* its firmware can do; a probe learns a part of them, depending on which  *)
(* of the tools' queries answered.                                         *)
(***************************************************************************)
EXTENDS Naturals, Sequences

Actions == {"crypto", "block", "overwrite"}

\* Capabilities(): nothing is known of the drive.
NoCaps ==
  [nvme_sanitize |-> {}, nvme_format_crypto |-> FALSE, ata_sanitize |-> {},
   ata_security |-> FALSE, ata_enhanced_erase |-> FALSE, ata_frozen |-> FALSE,
   ata_security_enabled |-> FALSE, scsi_sanitize |-> {}, sed_opal |-> FALSE,
   hpa_current |-> 0, hpa_native |-> 0, dco_real |-> 0]

hpa_enabled(caps) == 0 < caps.hpa_current /\ caps.hpa_current < caps.hpa_native
dco_hidden(caps)  == 0 < caps.hpa_native /\ caps.hpa_native < caps.dco_real

\* The queries probe makes of a drive of each transport.
Queries(transport) ==
  CASE transport = "nvme" -> {"id-ctrl", "sed"}
    [] transport = "sata" -> {"identify", "hpa", "dco", "sed"}
    [] transport = "sas"  -> {"opcodes", "sed"}
    [] transport = "usb"  -> {"identify", "hpa", "dco"}
    [] OTHER              -> {}

\* What the answers to each query teach: parse_nvme_id_ctrl, parse_hdparm_identify,
\* parse_hpa, parse_dco, _probe_scsi, parse_sed.
Learns(query) ==
  CASE query = "id-ctrl"  -> {"nvme_sanitize", "nvme_format_crypto"}
    [] query = "identify" -> {"ata_sanitize", "ata_security", "ata_enhanced_erase",
                              "ata_frozen", "ata_security_enabled"}
    [] query = "hpa"      -> {"hpa_current", "hpa_native"}
    [] query = "dco"      -> {"dco_real"}
    [] query = "opcodes"  -> {"scsi_sanitize"}
    [] query = "sed"      -> {"sed_opal"}

\* Without an answer to IDENTIFY the drive is not asked for its hidden areas.
Asked(transport, answered) ==
  LET heard == answered \cap Queries(transport)
  IN IF "identify" \in heard THEN heard ELSE heard \ {"hpa", "dco"}

\* probe: a query that fails, times out or has no tool leaves its fields unset.
probe(drive, answered) ==
  LET learnt == UNION {Learns(q) : q \in Asked(drive.transport, answered)}
  IN [f \in DOMAIN NoCaps |-> IF f \in learnt THEN drive.caps[f] ELSE NoCaps[f]]

\* Dry runs pretend that a drive of the type can do these.
simulated_caps(type) ==
  CASE type = "nvme" -> [NoCaps EXCEPT !.nvme_sanitize = {"crypto", "block"},
                                       !.nvme_format_crypto = TRUE]
    [] type = "ssd"  -> [NoCaps EXCEPT !.ata_security = TRUE, !.ata_enhanced_erase = TRUE,
                                       !.ata_sanitize = {"crypto", "block"}]
    [] type = "hdd"  -> [NoCaps EXCEPT !.ata_security = TRUE, !.ata_enhanced_erase = TRUE,
                                       !.ata_sanitize = {"overwrite"}]
    [] OTHER         -> NoCaps

-----------------------------------------------------------------------------
(* patterns.py: the passes of a standard, and what a pass leaves on the media. *)

Const(pattern, n) == [i \in 1..n |-> pattern]
NIST_PASSES    == <<"random">>
DOD_PASSES     == <<"zero", "ones", "random">>
GUTMANN_PASSES == Const("random", 4) \o Const("bytes", 27) \o Const("random", 4)

passes_for(standard) ==
  CASE standard = "dod_5220_22m" -> DOD_PASSES
    [] standard = "gutmann"      -> GUTMANN_PASSES
    [] OTHER                     -> NIST_PASSES

\* source_for: a random pass has a keystream of its own, other passes repeat.
Content(pattern, index) == <<pattern, IF pattern \in {"random", "bytes"} THEN index ELSE 0>>

-----------------------------------------------------------------------------
(* planner.py *)

Tech(kind, arg) == [kind |-> kind, arg |-> arg]
NoTech == Tech("none", "none")

PSID == Tech("sed_psid_revert", "psid")
Format == Tech("nvme_format", "crypto")
Secure(arg) == Tech("ata_secure_erase", arg)

CRYPTO_TECHNIQUES ==
  <<PSID, Tech("nvme_sanitize", "crypto"), Format,
    Tech("ata_sanitize", "crypto"), Tech("scsi_sanitize", "crypto")>>

PURGE_ORDER(type) ==
  CASE type = "nvme" ->
         <<Tech("nvme_sanitize", "crypto"), Tech("nvme_sanitize", "block"), Format, PSID,
           Tech("nvme_sanitize", "overwrite")>>
    [] type = "ssd" ->
         <<Tech("ata_sanitize", "crypto"), Tech("ata_sanitize", "block"), PSID,
           Tech("scsi_sanitize", "crypto"), Tech("scsi_sanitize", "block"),
           Secure("enhanced")>>
    [] type = "hdd" ->
         <<Tech("ata_sanitize", "overwrite"), Tech("ata_sanitize", "crypto"), PSID,
           Tech("scsi_sanitize", "crypto"), Tech("scsi_sanitize", "overwrite"),
           Secure("enhanced"), Secure("plain")>>
    [] OTHER -> <<>>

supported(t, caps, psid) ==
  CASE t.kind = "nvme_sanitize"    -> t.arg \in caps.nvme_sanitize
    [] t.kind = "nvme_format"      -> caps.nvme_format_crypto
    [] t.kind = "ata_sanitize"     -> t.arg \in caps.ata_sanitize
    [] t.kind = "ata_secure_erase" -> /\ caps.ata_security
                                      /\ t.arg = "enhanced" => caps.ata_enhanced_erase
                                      /\ ~caps.ata_frozen
                                      /\ ~caps.ata_security_enabled
    [] t.kind = "scsi_sanitize"    -> t.arg \in caps.scsi_sanitize
    [] OTHER                       -> caps.sed_opal /\ psid

\* _pick: the first technique of the order that is supported.
pick(order, caps, psid) ==
  LET able == {i \in DOMAIN order : supported(order[i], caps, psid)}
  IN IF able = {} THEN NoTech ELSE order[CHOOSE i \in able : \A j \in able : i <= j]

\* The steps of a plan: [kind, arg] again, with the pass or the native size in n.
Step(kind, arg, n) == [kind |-> kind, arg |-> arg, n |-> n]

ata_prep(transport, caps) ==
  IF transport # "sata" THEN <<>>
  ELSE (IF dco_hidden(caps) THEN <<Step("restore_dco", "dco", 0)>> ELSE <<>>)
       \o (IF hpa_enabled(caps) THEN <<Step("remove_hpa", "hpa", caps.hpa_native)>> ELSE <<>>)

firmware_step(t) == <<Step(t.kind, t.arg, 0)>>

overwrite_steps(standard) ==
  [i \in DOMAIN passes_for(standard) |-> Step("overwrite", passes_for(standard)[i], i)]

Plan(technique, category, steps) ==
  [technique |-> technique, category |-> category, steps |-> steps]

PlanError == Plan(NoTech, "error", <<>>)

plan(drive, caps, job, firmware_allowed) ==
  LET prep     == ata_prep(drive.transport, caps)
      order    == IF job.method = "crypto_erase" THEN CRYPTO_TECHNIQUES
                  ELSE PURGE_ORDER(drive.type)
      t        == IF firmware_allowed THEN pick(order, caps, job.psid) ELSE NoTech
      check(c) == <<Step("verify", c, IF job.full THEN 1 ELSE 0)>>
      clear    == Plan(NoTech, "clear",
                       prep \o overwrite_steps(job.standard) \o check("pattern"))
  IN CASE job.method = "crypto_erase" ->
            IF t = NoTech THEN PlanError
            ELSE Plan(t, "purge", prep \o firmware_step(t) \o check("changed"))
       [] job.method = "binary_overwrite" -> clear
       [] job.method = "full_sanitization" ->
            IF t = NoTech THEN clear
            ELSE Plan(t, "purge", prep \o firmware_step(t) \o overwrite_steps("nist_800_88")
                                  \o check("pattern"))
       [] OTHER -> PlanError
=============================================================================
