---------------------------- MODULE EditableSites ----------------------------
(***************************************************************************)
(* internal/macro/editable.go: the sites whose drafts the agent may edit.  *)
(* The grants are kept in memory and in a file.  r.mu is held for every    *)
(* operation, its file access included, so each is one step; the file is   *)
(* replaced by a rename, so a failed or interrupted save leaves it alone.  *)
(***************************************************************************)
CONSTANT Sites

VARIABLES
  granted,   \* r.sites
  loaded,    \* r.loaded
  saved,     \* the sites in the registry file
  revoked    \* history: sites whose last grant was revoked, and the
             \* operator was told so

siteVars == <<granted, loaded, saved, revoked>>

SitesInit ==
  /\ granted = {} /\ loaded = FALSE
  /\ saved \in SUBSET Sites   \* left by an earlier process
  /\ revoked = {}

(* load, at the first use: the file's grants, or none if it is unreadable, of
   which only that first caller hears. *)
Unreadable == ~loaded /\ granted' = {} /\ loaded' = TRUE
Load == loaded' = TRUE /\ granted' = IF loaded THEN granted ELSE saved

(* Enabled: an unreadable registry must never read as "enabled". *)
Consult == (Load \/ Unreadable) /\ UNCHANGED <<saved, revoked>>

(* Enable and Disable change the memory first and save it then. *)
Grants == IF loaded THEN granted ELSE saved

Enable(s) ==
  \/ Unreadable /\ UNCHANGED <<saved, revoked>>
  \/ /\ loaded' = TRUE
     /\ granted' = Grants \cup {s}
     /\ saved' \in {granted', saved}
     /\ revoked' = revoked \ {s}

(* Mutant of Disable: only the memory is changed. *)
Disable_unsaved(s) ==
  \/ Unreadable /\ UNCHANGED <<saved, revoked>>
  \/ /\ loaded' = TRUE
     /\ granted' = Grants \ {s}
     /\ saved' = saved
     /\ revoked' \in {revoked, revoked \cup {s}}

Disable(s) ==
  \/ Unreadable /\ UNCHANGED <<saved, revoked>>
  \/ /\ loaded' = TRUE
     /\ granted' = Grants \ {s}
     /\ \/ saved' = granted' /\ revoked' = revoked \cup {s}
        \/ saved' = saved /\ revoked' = revoked

(* The process is started again: the file is what is left. *)
SitesRestart == loaded' = FALSE /\ granted' = {} /\ UNCHANGED <<saved, revoked>>

SitesTypeOK ==
  /\ granted \subseteq Sites /\ saved \subseteq Sites /\ revoked \subseteq Sites
  /\ loaded \in BOOLEAN

(* A revocation the operator was told of lasts, in memory and on disk, until
   the site is granted again: whatever saves failed before or fail later,
   whether the registry could be read, and over restarts. *)
RevocationLasts == revoked \cap (granted \cup saved) = {}
=============================================================================
