----------------------------- MODULE BuildPipeline -----------------------------
(***************************************************************************)
(* The signed build (scripts/build-tool, with cli/build.rs that embeds the *)
(* package) and the release packager (scripts/package-release.ps1), over   *)
(* the files they leave behind.  Builds of the two targets follow each     *)
(* other in any order, each may stop at any step, the sources are edited   *)
(* and a plain `cargo build` of the CLI is run at any moment, and the next *)
(* build or packaging starts from whatever is there.                       *)
(*                                                                         *)
(* A file is its content: the source version it was made from, the target, *)
(* the signer, and for a catalog or an executable the files it covers or   *)
(* embeds.  Equal files have equal hashes.  MSBuild, Inf2Cat, SignTool,    *)
(* certutil and cargo are external and may do the wrong thing where the    *)
(* tool checks what they did.  A definition may follow a wrong form of     *)
(* itself, named for the mistake and used by no action.                    *)
(***************************************************************************)
EXTENDS Integers, Sequences

CONSTANTS
  Certificates,    \* code-signing certificates of the user's store
  MaxVersion,      \* bound of the model: versions of the sources
  MaxJobs          \* bound of the model: builds and packagings started

ASSUME BuildAssumption ==
  MaxVersion \in Nat \ {0} /\ MaxJobs \in Nat \ {0} /\ "nobody" \notin Certificates

Nobody == "nobody"
Signers == Certificates \cup {Nobody}

Versions == 1..MaxVersion
NoVersion == 0
Driver(v, t, by) == [version |-> v, target |-> t, by |-> by]
NoDriver == Driver(NoVersion, "none", Nobody)
Catalog(sys, inf, by) == [sys |-> sys, inf |-> inf, by |-> by]
NoCatalog == Catalog(NoDriver, NoVersion, Nobody)
Package(sys, inf, cat) == [sys |-> sys, inf |-> inf, cat |-> cat]
NoPackage == Package(NoDriver, NoVersion, NoCatalog)
Cli(v, t, by, package) == [version |-> v, target |-> t, by |-> by, embeds |-> package]
NoCli == Cli(NoVersion, "none", Nobody, NoPackage)
NoRelease == [cli |-> NoCli, package |-> NoPackage, symbols |-> NoVersion,
              driverCert |-> Nobody, cliCert |-> Nobody, certificate |-> Nobody]

VARIABLES
  version,         \* of the sources
  built,           \* artifacts/driver: the package and the symbols MSBuild made
  package,         \* artifacts/package
  outDir,          \* what build.rs copied for include_bytes
  cargoCli,        \* target/<triple>/<profile>/wispdisk.exe
  bin,             \* artifacts/bin/.../wispdisk.exe
  manifest,        \* artifacts/signing/...-manifest.json
  certificate,     \* artifacts/signing/WispDiskTest.cer
  trusted,         \* certificates in the user's Root store
  archive,         \* artifacts/release/*.zip
  job              \* the running build or packaging, and how it stands

vars == <<version, built, package, outDir, cargoCli, bin, manifest, certificate, trusted,
          archive, job>>
files == <<built, package, outDir, cargoCli, bin, manifest, certificate, trusted, archive>>

NoJob(step, number) ==
  [step |-> step, target |-> "none", copied |-> 0, asked |-> Nobody,
   driverCert |-> Nobody, cliCert |-> Nobody, number |-> number]

PackageFiles == <<"sys", "inf", "cat">>
Architectures == <<"x64", "ARM64">>
Targets == {"x64", "ARM64"}

Init ==
  /\ version = 1
  /\ built = [t \in Targets |-> [package |-> NoPackage, symbols |-> NoVersion]]
  /\ package = [t \in Targets |-> NoPackage]
  /\ outDir = [t \in Targets |-> NoPackage]
  /\ cargoCli = [t \in Targets |-> NoCli]
  /\ bin = [t \in Targets |-> NoCli]
  /\ manifest = [t \in Targets |-> NoRelease]
  /\ certificate = Nobody
  /\ trusted = {}
  /\ archive = [t \in Targets |-> NoRelease]
  /\ job = NoJob("none", 0)

-----------------------------------------------------------------------------
(***************************************************************************)
(* A build, in the order of build().                                       *)
(***************************************************************************)
At(step) == job.step = step
Goto(step) == job' = [job EXCEPT !.step = step]
T == job.target

Idle == job.step \in {"none", "done", "released", "failed"}

\* Options::parse and the discovery of the tools, which changes nothing.  The build is
\* told which certificate signs the driver, and which the executable, or neither.
StartBuild(t, asked, cli) ==
  /\ Idle /\ job.number < MaxJobs
  /\ job' = [step |-> "msbuild", target |-> t, copied |-> 0, asked |-> asked,
             driverCert |-> Nobody, cliCert |-> cli, number |-> job.number + 1]
  /\ UNCHANGED <<version, files>>

\* MSBuild writes driver, INF, its own catalog and the symbols, for what it takes the
\* platform to be.
MsBuild(platform) ==
  /\ At("msbuild") /\ Goto("reset")
  /\ built' = [built EXCEPT ![T] =
                 LET sys == Driver(version, platform, Nobody)
                 IN  [package |-> Package(sys, version, Catalog(sys, version, Nobody)),
                      symbols |-> version]]
  /\ UNCHANGED <<version, package, outDir, cargoCli, bin, manifest, certificate, trusted, archive>>

\* confirm_pe_architecture: the machine field of the PE header.
RightArchitecture(file) == file.target = T

\* After the check of the build's driver.
ResetDirectory ==
  /\ At("reset") /\ RightArchitecture(built[T].package.sys) /\ Goto("copy")
  /\ package' = [package EXCEPT ![T] = NoPackage]
  /\ UNCHANGED <<version, built, outDir, cargoCli, bin, manifest, certificate, trusted, archive>>

MoreToCopy == job.copied < Len(PackageFiles)

CopyFile ==
  /\ At("copy") /\ MoreToCopy
  /\ LET file == PackageFiles[job.copied + 1]
     IN  package' = [package EXCEPT ![T][file] = built[T].package[file]]
  /\ job' = [job EXCEPT !.copied = @ + 1]
  /\ UNCHANGED <<version, built, outDir, cargoCli, bin, manifest, certificate, trusted, archive>>

\* prepare_driver_certificate: the requested certificate is exported over the file, and
\* otherwise one is created only if there is no file.  found is what the file then holds.
Certificate(found) ==
  /\ At("copy") /\ ~MoreToCopy
  /\ (job.asked = Nobody /\ certificate # Nobody) => found = certificate
  /\ certificate' = found /\ Goto("trust")
  /\ UNCHANGED <<version, built, package, outDir, cargoCli, bin, manifest, trusted, archive>>

\* The thumbprint is the file's, compared with the requested one, and is trusted unless
\* WISPDISK_SKIP_CERTIFICATE_TRUST says not to.
Trust(skip) ==
  /\ At("trust") /\ job.asked \in {Nobody, certificate}
  /\ trusted' = IF skip THEN trusted ELSE trusted \cup {certificate}
  /\ job' = [job EXCEPT !.step = "signDriver", !.asked = Nobody, !.driverCert = certificate,
                        !.cliCert = IF @ = Nobody THEN certificate ELSE @]
  /\ UNCHANGED <<version, built, package, outDir, cargoCli, bin, manifest, certificate, archive>>

\* Signing changes the driver, so the catalog is made after it.
SignDriver ==
  /\ At("signDriver") /\ RightArchitecture(package[T].sys) /\ Goto("catalog")
  /\ package' = [package EXCEPT ![T].sys.by = job.driverCert, ![T].cat = NoCatalog]
  /\ UNCHANGED <<version, built, outDir, cargoCli, bin, manifest, certificate, trusted, archive>>

\* Inf2Cat lists the files it finds; it may fail to list one.
CreateCatalog(sys, inf) ==
  /\ At("catalog") /\ Goto("signCatalog")
  /\ sys \in {package[T].sys, NoDriver} /\ inf \in {package[T].inf, NoVersion}
  /\ package' = [package EXCEPT ![T].cat = Catalog(sys, inf, Nobody)]
  /\ UNCHANGED <<version, built, outDir, cargoCli, bin, manifest, certificate, trusted, archive>>

SignCatalog ==
  /\ At("signCatalog") /\ package[T].cat # NoCatalog /\ Goto("cargo")
  /\ package' = [package EXCEPT ![T].cat.by = job.driverCert]
  /\ UNCHANGED <<version, built, outDir, cargoCli, bin, manifest, certificate, trusted, archive>>

SignatureValid(file) == file.by \in trusted
CatalogSignedOnly(p) == SignatureValid(p.sys) /\ SignatureValid(p.cat)
\* verify_signature of driver and catalog, verify_catalog_member of driver and INF.
CatalogCovers(p) ==
  /\ SignatureValid(p.sys) /\ SignatureValid(p.cat)
  /\ p.cat.sys = p.sys /\ p.cat.inf = p.inf

-----------------------------------------------------------------------------
(***************************************************************************)
(* cargo, and the executable.                                              *)
(***************************************************************************)
\* Once the package is verified, build.rs copies it, unless cargo takes the last run of it
\* for current; a package with a missing file stops it.
CargoBuild(rerun) ==
  /\ At("cargo") /\ CatalogCovers(package[T]) /\ Goto("copyCli")
  /\ outDir[T] = NoPackage => rerun
  /\ rerun => /\ package[T].sys # NoDriver /\ package[T].inf # NoVersion
              /\ package[T].cat # NoCatalog
  /\ LET embedded == IF rerun THEN package[T] ELSE outDir[T]
     IN  /\ outDir' = [outDir EXCEPT ![T] = embedded]
         /\ cargoCli' = [cargoCli EXCEPT ![T] = Cli(version, T, Nobody, embedded)]
  /\ UNCHANGED <<version, built, package, bin, manifest, certificate, trusted, archive>>

CopyCli ==
  /\ At("copyCli") /\ RightArchitecture(cargoCli[T]) /\ Goto("signCli")
  /\ bin' = [bin EXCEPT ![T] = cargoCli[T]]
  /\ UNCHANGED <<version, built, package, outDir, cargoCli, manifest, certificate, trusted, archive>>

\* The copy is signed, not cargo's output, which cargo would take for its own.
SignCli ==
  /\ At("signCli") /\ Goto("manifest")
  /\ bin' = [bin EXCEPT ![T].by = job.cliCert]
  /\ UNCHANGED <<version, built, package, outDir, cargoCli, manifest, certificate, trusted, archive>>

ConfirmedWithoutPackage(exe, p) == SignatureValid(exe) /\ RightArchitecture(exe)
\* verify_signature, confirm_pe_architecture and confirm_package_embedded.
Confirmed(exe, p) == SignatureValid(exe) /\ RightArchitecture(exe) /\ exe.embeds = p

\* write_manifest, after the checks, hashes the files where they are when the build ends.
ManifestOf ==
  [cli |-> bin[T], package |-> package[T], symbols |-> built[T].symbols,
   driverCert |-> job.driverCert, cliCert |-> job.cliCert, certificate |-> certificate]

WriteManifest ==
  /\ At("manifest") /\ Confirmed(bin[T], package[T]) /\ Goto("done")
  /\ manifest' = [manifest EXCEPT ![T] = ManifestOf]
  /\ UNCHANGED <<version, built, package, outDir, cargoCli, bin, certificate, trusted, archive>>

\* A tool that fails, a check that does, or Ctrl+C: the tool exits with code 1 and
\* cleans up nothing.
Fail ==
  /\ ~Idle /\ job' = NoJob("failed", job.number) /\ UNCHANGED <<version, files>>

-----------------------------------------------------------------------------
(***************************************************************************)
(* The packager, and the developer.                                        *)
(***************************************************************************)
\* The packager goes through the architectures; copied counts the archives it has made.
StartPackaging ==
  /\ Idle /\ job.number < MaxJobs
  /\ job' = [NoJob("package", job.number + 1) EXCEPT !.target = Architectures[1]]
  /\ UNCHANGED <<version, files>>

\* What package-release.ps1 puts into the ZIP of a target.
Inputs(t) ==
  [cli |-> bin[t], package |-> package[t], symbols |-> built[t].symbols,
   driverCert |-> manifest[t].driverCert, cliCert |-> manifest[t].cliCert,
   certificate |-> certificate]

PackableIfPresent(t) == manifest[t] # NoRelease /\ bin[t] # NoCli
\* The thumbprints of the manifest are those of the certificate, and every input has the
\* hash its manifest gives it.
Packable(t) ==
  /\ manifest[t] # NoRelease
  /\ manifest[t].driverCert = certificate /\ manifest[t].cliCert = certificate
  /\ Inputs(t) = manifest[t]

\* The checks come first; then the ZIP of an earlier release is removed.
CheckInputs ==
  /\ At("package") /\ Packable(T) /\ Goto("archive")
  /\ archive' = [archive EXCEPT ![T] = NoRelease]
  /\ UNCHANGED <<version, built, package, outDir, cargoCli, bin, manifest, certificate, trusted>>

\* The ZIP gets the files as they are when they are copied.
CreateArchive ==
  /\ At("archive")
  /\ archive' = [archive EXCEPT ![T] = Inputs(T)]
  /\ job' = IF job.copied + 1 = Len(Architectures)
            THEN [job EXCEPT !.step = "released", !.copied = @ + 1]
            ELSE [job EXCEPT !.step = "package", !.target = Architectures[job.copied + 2],
                             !.copied = @ + 1]
  /\ UNCHANGED <<version, built, package, outDir, cargoCli, bin, manifest, certificate, trusted>>

Edit ==
  /\ version < MaxVersion /\ version' = version + 1
  /\ UNCHANGED <<files, job>>

\* `cargo build` for the target without WISPDISK_DRIVER_PACKAGE_DIR: build.rs leaves empty
\* files to include.
PlainCargoBuild(t) ==
  /\ cargoCli[t] # NoCli /\ cargoCli[t].embeds # NoPackage
  /\ outDir' = [outDir EXCEPT ![t] = NoPackage]
  /\ cargoCli' = [cargoCli EXCEPT ![t] = Cli(version, t, Nobody, NoPackage)]
  /\ UNCHANGED <<version, built, package, bin, manifest, certificate, trusted, archive, job>>

Next ==
  \/ \E t \in Targets, asked \in Signers, cli \in Signers : StartBuild(t, asked, cli)
  \/ \E t \in Targets : MsBuild(t)
  \/ ResetDirectory \/ CopyFile
  \/ \E c \in Certificates : Certificate(c)
  \/ \E skip \in BOOLEAN : Trust(skip)
  \/ SignDriver
  \/ \E sys \in {package[t].sys : t \in Targets} \cup {NoDriver},
        inf \in Versions \cup {NoVersion} : CreateCatalog(sys, inf)
  \/ SignCatalog
  \/ \E rerun \in BOOLEAN : CargoBuild(rerun)
  \/ CopyCli \/ SignCli \/ WriteManifest \/ Fail
  \/ StartPackaging \/ CheckInputs \/ CreateArchive
  \/ Edit
  \/ \E t \in Targets : PlainCargoBuild(t)

Spec == Init /\ [][Next]_vars
-----------------------------------------------------------------------------
(***************************************************************************)
(* Properties.                                                             *)
(***************************************************************************)
Drivers == [version : Versions, target : Targets, by : Signers] \cup {NoDriver}
Catalogs == [sys : Drivers, inf : Versions \cup {NoVersion}, by : Signers]
Packages == [sys : Drivers, inf : Versions \cup {NoVersion}, cat : Catalogs]
Steps == {"none", "msbuild", "reset", "copy", "trust", "signDriver", "catalog", "signCatalog",
          "cargo", "copyCli", "signCli", "manifest", "package", "archive", "done", "released",
          "failed"}

\* The state is well formed; cargo's own output is never signed.
TypeOK ==
  /\ version \in Versions /\ job.step \in Steps
  /\ job.copied \in 0..Len(PackageFiles) /\ job.number \in 0..MaxJobs
  /\ \A t \in Targets : /\ package[t] \in Packages /\ outDir[t] \in Packages
                        /\ built[t].package \in Packages
                        /\ bin[t].by \in Signers /\ cargoCli[t].by = Nobody
  /\ certificate \in Signers /\ trusted \subseteq Certificates

\* A package Windows accepts on target t: the driver is for it, driver and catalog carry
\* the same certificate, and the catalog has the hashes of this very driver and INF.
Installable(p, t, by) ==
  /\ p.sys.target = t /\ p.sys.by = by /\ p.cat.by = by
  /\ p.cat.sys = p.sys /\ p.cat.inf = p.inf

\* An executable of a build that reports success carries exactly the package the build
\* signed, one Windows accepts, whatever earlier, failed or concurrent cargo builds left
\* in OUT_DIR or in target/ (the order of build() and its verification steps).
BuildShipsItsPackage ==
  At("done") =>
    /\ bin[T].embeds = package[T] /\ bin[T].by = job.cliCert
    /\ Installable(package[T], T, job.driverCert)
    /\ package[T].sys.version = built[T].package.sys.version

\* The manifest of a build that reports success describes the files as they are, and
\* names the certificates that signed them.
ManifestTrue ==
  At("done") =>
    /\ manifest[T].cli = bin[T] /\ manifest[T].package = package[T]
    /\ manifest[T].cliCert = bin[T].by /\ manifest[T].driverCert = package[T].sys.by

\* Every archive is of one build: its executable carries the package beside it, the
\* symbols are of that driver, and the certificate in it signed all of it, although the
\* certificate file is shared and a later build may have stopped half-way.  Archives of
\* one release share the certificate.
ReleaseIsOneBuild ==
  /\ \A t \in Targets :
       LET zip == archive[t]
       IN  zip # NoRelease =>
             /\ zip.cli.embeds = zip.package /\ zip.cli.by = zip.certificate
             /\ Installable(zip.package, t, zip.certificate)
             /\ zip.symbols = zip.package.sys.version
  /\ At("released") => \A t \in Targets : archive[t].certificate = certificate

\* What a successful build() leaves on disk belongs together and is recorded as it is.
BuildIsCoherent == TypeOK /\ BuildShipsItsPackage /\ ManifestTrue

=============================================================================
