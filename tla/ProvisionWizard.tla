--------------------------- MODULE ProvisionWizard ---------------------------
(***************************************************************************)
(* The provisioning wizard (cmd/gmapssaas/cmdprovision): a sequence of      *)
(* steps that create a server, a database, secrets, an application and an   *)
(* administrator, each followed by a save of the state from which the next  *)
(* run resumes.  The update command works from the same file.  The world    *)
(* outside the process (provider accounts, servers, databases) keeps what a *)
(* run did when the run dies.                                               *)
(*                                                                         *)
(* A run makes each kind of thing at most once, so that what it makes is     *)
(* named by the number of the run: the encryption key 2 is the one that run *)
(* 2 generated, 0 is none.                                                   *)
(***************************************************************************)
EXTENDS Integers

CONSTANTS
  MaxRuns,   \* bound: runs of the wizard and of the update command
  NoFile,    \* there is no state file
  Torn       \* the state file was cut short by a death during its write

ASSUME RunsAssumption == MaxRuns \in Nat \ {0}

VARIABLES
  file,      \* ~/.gmapssaas/provision-state.json
  mem,       \* the ProvisionState of the run in execution
  pc,        \* its step
  after,     \* the step that follows the save in progress
  runs,      \* runs started so far, and the number of the current one
  cloudKey,  \* the run whose key is registered with Hetzner under the fixed name
  server,    \* per Hetzner server: the run whose key it accepts
  db,        \* the databases
  app        \* the deployed applications and what they were given

local == <<mem, pc, after, runs>>
world == <<cloudKey, server, db, app>>
wizardVars == <<file, local, world>>

Ids == 0 .. MaxRuns
Providers == {"vps", "do", "hetzner"}
\* Servers, clusters, applications: whose they are and the run that made them.
Places == {"nowhere", "vps", "do", "hetzner", "existing"} \X Ids
Nowhere == <<"nowhere", 0>>
URLs == [db : Places, pwd : Ids]
NoURL == [db |-> Nowhere, pwd |-> 0]
\* The rows of app_config: app_key_pair stands for the other settings.
ConfigRows == {"hash_salt", "app_key_pair"}
NotDeployed == [url |-> NoURL, enc |-> 0, salt |-> 0]
Steps == {"image", "connected", "setup", "database", "deployed"}

\* ProvisionState; app is DO.AppID.
States == [provider : Providers \cup {"none"}, host : Places, ssh : Ids, steps : SUBSET Steps,
           url : URLs, enc : Ids, salt : Ids, app : Places, admin : BOOLEAN]
ASSUME FileAssumption == NoFile # Torn /\ NoFile \notin States /\ Torn \notin States

Fresh == [provider |-> "none", host |-> Nowhere, ssh |-> 0, steps |-> {},
          url |-> NoURL, enc |-> 0, salt |-> 0, app |-> Nowhere, admin |-> FALSE]

Saved == file \notin {NoFile, Torn}

----------------------------------------------------------------------------
(* state.go *)

\* SaveState(t) begins; the run goes on with step next when it has ended.
SaveState(t, next) ==
  /\ mem' = t
  /\ pc' = "saving"
  /\ after' = next
  /\ UNCHANGED <<file, runs>>

Go(next) == pc' = next /\ UNCHANGED <<file, mem, after, runs>>

FileWritten ==
  /\ pc = "saving"
  /\ file' = mem
  /\ pc' = after
  /\ UNCHANGED <<mem, after, runs, world>>

Off == pc' = "off" /\ mem' = Fresh /\ after' = "off" /\ UNCHANGED runs

\* Any step returns an error, or the process dies.
Exit ==
  /\ pc # "off"
  /\ Off
  /\ UNCHANGED <<file, world>>

\* os.WriteFile truncates and then writes: a death between leaves a file that
\* LoadState refuses for ever.
DiesWhileWriting ==
  /\ pc = "saving"
  /\ file' = Torn
  /\ Off
  /\ UNCHANGED world

----------------------------------------------------------------------------
(* run: the state file, the image and the provider.                         *)

Begins(t) ==
  /\ pc = "off"
  /\ runs < MaxRuns
  /\ runs' = runs + 1
  /\ mem' = t
  /\ pc' = "image"
  /\ UNCHANGED <<after, world>>

Start == file = NoFile /\ Begins(Fresh) /\ UNCHANGED file
Resume == Saved /\ Begins(file) /\ UNCHANGED file

\* The user does not resume: DeleteState.
Discard == Saved /\ Begins(Fresh) /\ file' = NoFile

ImageKept ==
  /\ pc = "image"
  /\ "image" \in mem.steps
  /\ Go("provider")
  /\ UNCHANGED world

Done(t, step) == [t EXCEPT !.steps = @ \cup {step}]

\* GMAPSSAAS_IMAGE, an image that was pushed before, or a build and push.
ImagePushed ==
  /\ pc = "image"
  /\ SaveState(Done(mem, "image"), "provider")
  /\ UNCHANGED world

ProviderIs(p) == pc = "provider" /\ mem.provider \in {"none", p}

InitVPS ==
  /\ ProviderIs("vps")
  /\ SaveState([mem EXCEPT !.provider = "vps", !.host = <<"vps", 0>>], "connect")
  /\ UNCHANGED world

InitDO ==
  /\ ProviderIs("do")
  /\ SaveState([mem EXCEPT !.provider = "do", !.host = <<"do", 0>>], "connect")
  /\ UNCHANGED world

InitHetznerSaved ==
  /\ ProviderIs("hetzner")
  /\ mem.host # Nowhere
  /\ SaveState(mem, "connect")
  /\ UNCHANGED world

\* EnsureSSHKey prefers the key that has the fixed name to the one it is given.
EnsureSSHKey(key) == cloudKey' = IF cloudKey = 0 THEN key ELSE cloudKey

\* A key is generated, registered and given to a new server.
InitHetzner ==
  LET key == IF mem.ssh = 0 THEN runs ELSE mem.ssh
  IN  /\ ProviderIs("hetzner")
      /\ mem.host = Nowhere
      /\ EnsureSSHKey(key)
      /\ server' = [server EXCEPT ![runs] = cloudKey']
      /\ SaveState([mem EXCEPT !.provider = "hetzner", !.host = <<"hetzner", runs>>, !.ssh = key],
                   "connect")
      /\ UNCHANGED <<db, app>>

\* The server lets the wizard in: its own key on Hetzner, the user's elsewhere.
Reachable(t) == t.provider = "hetzner" => server[t.host[2]] = t.ssh

CheckConnectivity ==
  /\ pc = "connect"
  /\ IF "connected" \in mem.steps
       THEN Go("setup")
       ELSE Reachable(mem) /\ SaveState(Done(mem, "connected"), "setup")
  /\ UNCHANGED world

Setup ==
  /\ pc = "setup"
  /\ IF "setup" \in mem.steps
       THEN Go("database")
       ELSE Reachable(mem) /\ SaveState(Done(mem, "setup"), "database")
  /\ UNCHANGED world

----------------------------------------------------------------------------
(* The database.                                                            *)

DatabaseKept ==
  /\ pc = "database"
  /\ "database" \in mem.steps
  /\ Go("verify")
  /\ UNCHANGED world

\* Mutant: the step is taken although the file says that it is done.
WantsDatabaseAgain == pc = "database"

WantsDatabase == pc = "database" /\ "database" \notin mem.steps

\* The URL is saved before anybody has connected with it.
DatabaseIs(url) == SaveState(Done([mem EXCEPT !.url = url], "database"), "verify")

\* The data volume keeps the password of its first start.
RunDBScript(place, pwd) == db' = [db EXCEPT ![place].pwd = IF @ = 0 THEN pwd ELSE @]

\* CreateDatabase of a server, with a new password.
CreateOnServer ==
  /\ WantsDatabase
  /\ mem.provider # "do"
  /\ Reachable(mem)
  /\ RunDBScript(mem.host, runs)
  /\ DatabaseIs([db |-> mem.host, pwd |-> runs])
  /\ UNCHANGED <<cloudKey, server, app>>

\* CreateDatabase of DigitalOcean: a cluster is ordered and waited for.
CreateCluster ==
  /\ WantsDatabase
  /\ mem.provider = "do"
  /\ db' = [db EXCEPT ![<<"do", runs>>].pwd = runs]
  /\ Go("clusterComesOnline")
  /\ UNCHANGED <<cloudKey, server, app>>

ClusterOnline ==
  /\ pc = "clusterComesOnline"
  /\ DatabaseIs([db |-> <<"do", runs>>, pwd |-> runs])
  /\ UNCHANGED world

\* The user types the URL of a database, with a password that may be wrong.
UseExistingDB ==
  /\ WantsDatabase
  /\ \E pwd \in {0, 1} : DatabaseIs([db |-> <<"existing", 0>>, pwd |-> pwd])
  /\ UNCHANGED world

Connects(url) == url.pwd # 0 /\ db[url.db].pwd = url.pwd

Migrated(place) == [db EXCEPT ![place].schema = TRUE]

VerifyAndMigrate ==
  /\ pc = "verify"
  /\ Connects(mem.url)
  /\ db' = Migrated(mem.url.db)
  /\ Go("encryptionKey")
  /\ UNCHANGED <<cloudKey, server, app>>

----------------------------------------------------------------------------
(* Secrets: generated once and saved before their first use.                *)

\* Mutants: a secret is generated in every run; it is used before its save.
GenerateAlways(step, have, t, next) == pc = step /\ SaveState(t, next)
GenerateUnsaved(step, have, t, next) ==
  /\ pc = step
  /\ IF have THEN Go(next)
     ELSE mem' = t /\ pc' = next /\ UNCHANGED <<file, after, runs>>

\* If have then nothing is done, else the state becomes t.
Generate(step, have, t, next) ==
  /\ pc = step
  /\ IF have THEN Go(next) ELSE SaveState(t, next)

GenerateSecrets ==
  /\ \/ Generate("encryptionKey", mem.enc # 0, [mem EXCEPT !.enc = runs], "hashSalt")
     \/ Generate("hashSalt", mem.salt # 0, [mem EXCEPT !.salt = runs], "sshKey")
     \/ Generate("sshKey", mem.ssh # 0, [mem EXCEPT !.ssh = runs], "config")
  /\ UNCHANGED world

\* SetConfig: an upsert of the encrypted value.
SetConfig(row, val) ==
  db' = [db EXCEPT ![mem.url.db].rows[row] = [enc |-> mem.enc, val |-> val]]

\* The settings are written one by one, in the order of a Go map.
SaveConfig(row) ==
  /\ pc = "config"
  /\ SetConfig(row, IF row = "hash_salt" THEN mem.salt ELSE mem.ssh)
  /\ UNCHANGED <<file, local, cloudKey, server, app>>

Holds(place, t) ==
  /\ db[place].rows["hash_salt"] = [enc |-> t.enc, val |-> t.salt]
  /\ db[place].rows["app_key_pair"] = [enc |-> t.enc, val |-> t.ssh]

ConfigSaved ==
  /\ pc = "config"
  /\ Holds(mem.url.db, mem)
  /\ Go("deploy")
  /\ UNCHANGED world

----------------------------------------------------------------------------
(* The application and its administrator.                                   *)

DeployKept ==
  /\ pc = "deploy"
  /\ "deployed" \in mem.steps
  /\ Go("admin")
  /\ UNCHANGED world

DeployConfig(t) == [url |-> t.url, enc |-> t.enc, salt |-> t.salt]

\* Deploy of a server: the files of the one application are overwritten.
DeployOnServer ==
  /\ pc = "deploy"
  /\ mem.provider # "do"
  /\ Reachable(mem)
  /\ app' = [app EXCEPT ![mem.host] = DeployConfig(mem)]
  /\ SaveState([Done(mem, "deployed") EXCEPT !.app = mem.host], "admin")
  /\ UNCHANGED <<cloudKey, server, db>>

\* findExistingApp: any application of the fixed name, or none on an error.
Found(t) ==
  IF t.app # Nowhere THEN {t.app}
  ELSE {a \in Places : a[1] = "do" /\ app[a] # NotDeployed}

\* Deploy of DigitalOcean: update what is known or found, else create.
DeployApp(a) ==
  /\ pc = "deploy"
  /\ mem.provider = "do"
  /\ a \in Found(mem) \/ (mem.app = Nowhere /\ a = <<"do", runs>>)
  /\ app' = [app EXCEPT ![a] = DeployConfig(mem)]
  /\ mem' = [mem EXCEPT !.app = a]
  /\ pc' = "deploymentComesActive"
  /\ UNCHANGED <<file, after, runs, cloudKey, server, db>>

DeploymentActive ==
  /\ pc = "deploymentComesActive"
  /\ SaveState(Done(mem, "deployed"), "admin")
  /\ UNCHANGED world

\* CreateUser is a plain INSERT: the name must be free.
CreateAdmin ==
  /\ pc = "admin"
  /\ ~mem.admin
  /\ ~db[mem.url.db].admin
  /\ db' = [db EXCEPT ![mem.url.db].admin = TRUE]
  /\ SaveState([mem EXCEPT !.admin = TRUE], "complete")
  /\ UNCHANGED <<cloudKey, server, app>>

AdminKept ==
  /\ pc = "admin"
  /\ mem.admin
  /\ Go("complete")
  /\ UNCHANGED world

----------------------------------------------------------------------------
(* The other commands, between two runs of the wizard.                      *)

\* update: migrations and a deployment that may fail, from whatever the file holds.
Update ==
  /\ pc = "off"
  /\ runs < MaxRuns
  /\ Saved
  /\ "image" \in file.steps
  /\ file.host # Nowhere
  /\ Connects(file.url)
  /\ runs' = runs + 1
  /\ db' = Migrated(file.url.db)
  /\ \/ UNCHANGED app
     \/ /\ Reachable(file)
        /\ \E a \in IF file.provider # "do" THEN {file.host}
                    ELSE Found(file) \cup {b \in {<<"do", runs'>>} : file.app = Nowhere} :
             app' = [app EXCEPT ![a] = DeployConfig(file)]
  /\ UNCHANGED <<file, mem, pc, after, cloudKey, server>>

\* admin create-user: the password of an existing user is replaced.
AdminCommand ==
  /\ pc = "off"
  /\ \E place \in Places :
       /\ db[place].schema
       /\ db' = [db EXCEPT ![place].admin = TRUE]
  /\ UNCHANGED <<file, local, cloudKey, server, app>>

----------------------------------------------------------------------------
NoDatabase == [pwd |-> 0, schema |-> FALSE, admin |-> FALSE,
               rows |-> [r \in ConfigRows |-> [enc |-> 0, val |-> 0]]]

WizardInit ==
  /\ file = NoFile
  /\ mem = Fresh /\ pc = "off" /\ after = "off" /\ runs = 0
  /\ cloudKey = 0
  /\ server = [i \in Ids |-> 0]
  /\ db = [p \in Places |-> IF p = <<"existing", 0>> THEN [NoDatabase EXCEPT !.pwd = 1]
                            ELSE NoDatabase]
  /\ app = [p \in Places |-> NotDeployed]

BeginStep == Start \/ Resume \/ Discard \/ ImageKept \/ ImagePushed
ProviderStep ==
  InitVPS \/ InitDO \/ InitHetznerSaved \/ InitHetzner \/ CheckConnectivity \/ Setup
DatabaseStep ==
  \/ DatabaseKept \/ CreateOnServer \/ CreateCluster \/ ClusterOnline
  \/ UseExistingDB \/ VerifyAndMigrate
SecretStep == GenerateSecrets \/ (\E row \in ConfigRows : SaveConfig(row)) \/ ConfigSaved
DeployStep ==
  \/ DeployKept \/ DeployOnServer \/ (\E a \in Places : DeployApp(a)) \/ DeploymentActive
  \/ CreateAdmin \/ AdminKept

WizardNext ==
  \/ FileWritten \/ Exit \/ DiesWhileWriting
  \/ BeginStep \/ ProviderStep \/ DatabaseStep \/ SecretStep \/ DeployStep
  \/ Update \/ AdminCommand

WizardSpec == WizardInit /\ [][WizardNext]_wizardVars

----------------------------------------------------------------------------

\* A file that is there is only ever replaced by one that keeps its secrets: no
\* resumed run, whatever step the last one died in, generates a key or a salt
\* again, or forgets the database or the server of an earlier run.
SavedSecretsAreKept ==
  [][Saved /\ Saved' =>
       /\ file.enc # 0 => file'.enc = file.enc
       /\ file.salt # 0 => file'.salt = file.salt
       /\ file.ssh # 0 => file'.ssh = file.ssh
       /\ file.url # NoURL => file'.url = file.url
       /\ file.host # Nowhere => file'.host = file.host]_wizardVars

\* What is written with a secret can be read by the next run: a row of the
\* configuration and an application only ever get the secrets that are in the
\* file at that moment, so that a death right after it loses none of them.
UsedSecretsAreSaved ==
  [][/\ \A p \in Places, r \in ConfigRows :
          db'[p].rows[r] # db[p].rows[r] =>
            Saved /\ db'[p].rows[r].enc = file.enc /\ file.enc # 0
     /\ \A p \in Places : app'[p] # app[p] => Saved /\ app'[p] = DeployConfig(file)]_wizardVars

\* When the wizard says PROVISIONING COMPLETE, after any number of interrupted
\* runs, updates and fresh starts, the file, the database, the application and
\* the administrator agree.
CompleteMeansUsable ==
  pc = "complete" =>
    /\ file = mem
    /\ Connects(mem.url)
    /\ db[mem.url.db].schema /\ db[mem.url.db].admin
    /\ Holds(mem.url.db, mem)
    /\ app[mem.app] = DeployConfig(mem)

=============================================================================
