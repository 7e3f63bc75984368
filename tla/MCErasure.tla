------------------------------- MODULE MCErasure -------------------------------
(***************************************************************************)
(* Model-checking instance of the three ways to erase: a drive (Pipeline), *)
(* files (FileWipe) and the free space of a volume (SpaceFill).  A job has *)
(* one of them; the other two are over from the start.                     *)
(***************************************************************************)
EXTENDS Pipeline, FileWipe, SpaceFill

Full(n)  == [u \in 1..n |-> <<"data", 0>>]
Blank(n) == [u \in 1..n |-> IF u = 3 THEN <<"data", 0>> ELSE <<"zero", 0>>]

Drive(transport, type, c, n) ==
  [transport |-> transport, type |-> type, caps |-> c, units |-> n,
   data |-> Full(n), stuck |-> {}, lies |-> FALSE]

Nvme(acts, fmt, sed) ==
  [NoCaps EXCEPT !.nvme_sanitize = acts, !.nvme_format_crypto = fmt, !.sed_opal = sed]

\* An ATA drive answers -N: `current' of `native' units; dco is the real maximum.
Ata(acts, sec, enh, frozen, current, native, dco) ==
  [NoCaps EXCEPT !.ata_sanitize = acts, !.ata_security = sec, !.ata_enhanced_erase = enh,
                 !.ata_frozen = frozen, !.hpa_current = current, !.hpa_native = native,
                 !.dco_real = dco]

MCDrives ==
  { Drive("nvme", "nvme", Nvme({"crypto", "block"}, TRUE, FALSE), 3),
    Drive("nvme", "nvme", Nvme({"overwrite"}, FALSE, TRUE), 3),
    Drive("nvme", "nvme", Nvme({}, TRUE, FALSE), 3),
    [Drive("nvme", "nvme", Nvme({"crypto"}, FALSE, FALSE), 4)
       EXCEPT !.lies = TRUE, !.data = Blank(4)],
    Drive("sata", "ssd", Ata({"crypto"}, FALSE, FALSE, FALSE, 3, 3, 3), 3),
    Drive("sata", "ssd", Ata({}, TRUE, TRUE, FALSE, 3, 3, 5), 5),
    Drive("sata", "hdd", Ata({}, TRUE, FALSE, FALSE, 4, 5, 5), 5),
    Drive("sata", "hdd", Ata({}, TRUE, TRUE, TRUE, 5, 6, 7), 7),
    [Drive("sata", "hdd", Ata({}, FALSE, FALSE, FALSE, 7, 7, 7), 7) EXCEPT !.stuck = {3}],
    Drive("sas", "hdd", [NoCaps EXCEPT !.scsi_sanitize = {"overwrite"}, !.sed_opal = TRUE], 3),
    Drive("usb", "usb_flash", Ata({}, TRUE, FALSE, FALSE, 3, 3, 3), 3) }

\* A hidden area that does not begin with a block, on a drive that acknowledges and keeps.
MCRevealed ==
  { [Drive("sata", "ssd", Ata({"crypto"}, FALSE, FALSE, FALSE, 3, 4, 4), 4)
       EXCEPT !.lies = TRUE, !.data = Blank(4)] }

Job(method, standard, full) ==
  [method |-> method, standard |-> standard, psid |-> FALSE, full |-> full,
   dry |-> FALSE, system |-> "Linux"]

MCJobs ==
  { Job("crypto_erase", "nist_800_88", FALSE),
    Job("full_sanitization", "nist_800_88", TRUE),
    Job("binary_overwrite", "dod_5220_22m", FALSE),
    [Job("full_sanitization", "dod_5220_22m", FALSE) EXCEPT !.psid = TRUE],
    [Job("full_sanitization", "nist_800_88", FALSE) EXCEPT !.dry = TRUE],
    [Job("full_sanitization", "nist_800_88", FALSE) EXCEPT !.system = "Windows"],
    [Job("binary_overwrite", "nist_800_88", FALSE) EXCEPT !.system = "Darwin"] }

MCHosts ==
  {h \in [root : BOOLEAN, attached : BOOLEAN, boot : BOOLEAN, held : BOOLEAN, mounted : BOOLEAN] :
     h.mounted /\ Cardinality({f \in {"root", "attached"} : ~h[f]} \cup {f \in {"boot", "held"} : h[f]}) <= 1}

-----------------------------------------------------------------------------
\* Files 1 and 2 lie in a directory with a link to file 4; file 3 is empty; the only unit
\* of file 5 loses its writes.
Path(entries) ==
  [absolute |-> TRUE, link |-> FALSE, found |-> TRUE, inside |-> TRUE, isRoot |-> FALSE,
   own |-> FALSE, entries |-> entries]
Entry(f, link) == [file |-> f, link |-> link]

MCFileUnits == <<3, 2, 0, 5, 1>>
MCFileStuck == <<{}, {}, {}, {}, {1}>>

Folder == Path({Entry(1, FALSE), Entry(2, FALSE), Entry(4, TRUE)})
Selected(paths, method, standard) ==
  [paths |-> paths, method |-> method, standard |-> standard, dry |-> FALSE]

MCSelections ==
  { Selected({Folder, Path({Entry(3, FALSE)})}, "full_sanitization", "nist_800_88"),
    Selected({Path({Entry(4, FALSE)}), Path({Entry(2, FALSE)})}, "binary_overwrite", "dod_5220_22m"),
    Selected({Path({Entry(5, FALSE)}), Folder}, "crypto_erase", "gutmann"),
    [Selected({Folder}, "binary_overwrite", "nist_800_88") EXCEPT !.dry = TRUE],
    Selected({Folder, [Path({Entry(4, FALSE)}) EXCEPT !.inside = FALSE]}, "binary_overwrite", "nist_800_88"),
    Selected({Path({})}, "binary_overwrite", "nist_800_88") }

MCVolumes ==
  {[letter |-> TRUE, policy |-> FALSE, writable |-> TRUE, used |-> u] : u \in {{1}, {1, 2, 3, 4, 5}}}
  \cup {[letter |-> l, policy |-> ~l, writable |-> TRUE, used |-> {}] : l \in BOOLEAN}

-----------------------------------------------------------------------------
\* There is a drive, a job, a host, a selection and a volume to choose.
ASSUME ErasureAssumption ==
  /\ Drives # {} /\ Jobs # {} /\ Hosts # {}
  /\ Selections # {} /\ Volumes # {}

NoDrive == Start(Pick(Drives), Pick(Jobs), Pick(Hosts), "ended")
NoFiles == FStart(Pick(Selections), "ended")
NoFill  == SStart(Pick(Volumes), "ended")

MCInit ==
  \/ Init    /\ NoFiles /\ NoFill
  \/ NoDrive /\ FInit /\ NoFill
  \/ NoDrive /\ NoFiles /\ SInit

MCNext ==
  \/ Next  /\ UNCHANGED <<fvars, svars>>
  \/ FNext /\ UNCHANGED <<vars, svars>>
  \/ SNext /\ UNCHANGED <<vars, fvars>>

\* The threads of the jobs run.
MCSpec ==
  /\ MCInit /\ [][MCNext]_<<vars, fvars, svars>>
  /\ WF_vars(Worker /\ UNCHANGED <<fvars, svars>>)
  /\ WF_fvars(FileThread /\ UNCHANGED <<vars, svars>>)
  /\ WF_svars(Filler /\ UNCHANGED <<vars, fvars>>)

\* The type invariants of the three modules.
ErasureTypeOK == TypeOK /\ FTypeOK /\ FillTypeOK

\* Every job ends: a sanitize that never finishes is given up at its deadline, a file
\* job runs out of files, a fill out of space.
Ends == <>(Ended /\ stage = "ended" /\ fstage = "ended")
=============================================================================
