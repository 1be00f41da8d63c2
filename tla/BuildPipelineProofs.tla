-------------------------- MODULE BuildPipelineProofs --------------------------
(***************************************************************************)
(* Proofs about BuildPipeline: for any certificates, any number of builds, *)
(* packagings and versions of the sources, and any step where one stops.   *)
(***************************************************************************)
EXTENDS BuildPipeline, TLAPS

-----------------------------------------------------------------------------
(***************************************************************************)
(* The invariant.                                                          *)
(***************************************************************************)
SomeVersion == Versions \cup {NoVersion}
SomeTarget == Targets \cup {"none"}
Clis == [version : SomeVersion, target : SomeTarget, by : Signers, embeds : Packages]
Releases ==
  [cli : Clis, package : Packages, symbols : SomeVersion,
   driverCert : Signers, cliCert : Signers, certificate : Signers]
Jobs ==
  [step : Steps, target : SomeTarget, copied : 0..3, asked : Signers,
   driverCert : Signers, cliCert : Signers, number : 0..MaxJobs]

\* The files and the job are of their kinds; cargo's own output is never signed.
Kinds ==
  /\ version \in Versions
  /\ built \in [Targets -> [package : Packages, symbols : SomeVersion]]
  /\ package \in [Targets -> Packages] /\ outDir \in [Targets -> Packages]
  /\ cargoCli \in [Targets -> Clis] /\ bin \in [Targets -> Clis]
  /\ manifest \in [Targets -> Releases] /\ archive \in [Targets -> Releases]
  /\ certificate \in Signers /\ trusted \subseteq Certificates
  /\ job \in Jobs
  /\ \A t \in Targets : cargoCli[t].by = Nobody

\* The steps of a build, from each on to its end.
ToTheEnd == {"manifest", "done"}
FromCopyCli == {"copyCli", "signCli"} \cup ToTheEnd
FromCargo == {"cargo"} \cup FromCopyCli
FromCatalog == {"catalog", "signCatalog"} \cup FromCargo
FromSignDriver == {"signDriver"} \cup FromCatalog
FromTrust == {"trust"} \cup FromSignDriver
BuildSteps == {"msbuild", "reset", "copy"} \cup FromTrust

\* What a build has established by the step it is at; the next job finds the rest.
Progress ==
  /\ job.step \in BuildSteps => T \in Targets
  /\ job.step \in {"msbuild", "reset"} => job.copied = 0
  /\ job.step \in {"copy"} \cup FromTrust => built[T].package.sys.target = T
  /\ At("copy") /\ job.copied > 0 => package[T].sys = built[T].package.sys
  /\ job.step \in FromTrust =>
       /\ package[T].sys.version = built[T].package.sys.version
       /\ certificate \in Certificates
  /\ job.step \in FromSignDriver => job.driverCert = certificate
  /\ job.step \in FromCatalog => package[T].sys.target = T /\ package[T].sys.by = job.driverCert
  /\ job.step \in FromCargo => package[T].cat.by = job.driverCert
  /\ job.step \in FromCopyCli => Installable(package[T], T, job.driverCert)
  /\ job.step \in ToTheEnd => bin[T].by = job.cliCert
  /\ At("done") => bin[T].embeds = package[T] /\ manifest[T] = ManifestOf

\* A manifest or an archive of target t is of one build.
OneBuild(m, t) ==
  m # NoRelease =>
    /\ m.cli.embeds = m.package /\ m.cli.by = m.cliCert
    /\ Installable(m.package, t, m.driverCert)
    /\ m.symbols = m.package.sys.version

\* MSBuild writes driver and symbols together, each manifest is of the build that wrote it,
\* whatever happened to the files since, and so are the archives.
Records ==
  \A t \in Targets :
    /\ built[t].symbols = built[t].package.sys.version
    /\ OneBuild(manifest[t], t) /\ OneBuild(archive[t], t)
    /\ archive[t] # NoRelease =>
         archive[t].driverCert = archive[t].certificate
         /\ archive[t].cliCert = archive[t].certificate

\* The packager has made the archives it has counted, with the certificate that is there;
\* what it has checked is still so when it is copied.
Packaging ==
  /\ job.step \in {"package", "archive"} =>
       /\ job.copied \in 0..1 /\ T = Architectures[job.copied + 1]
       /\ job.copied = 1 => archive["x64"].certificate = certificate
  /\ At("archive") => Packable(T)
  /\ At("released") => \A t \in Targets : archive[t].certificate = certificate

BuildInv == Kinds /\ Progress /\ Records /\ Packaging

-----------------------------------------------------------------------------
(***************************************************************************)
(* The kinds of the files.                                                 *)
(***************************************************************************)
\* The values that stand for missing files are of their kinds.
LEMMA NothingHasItsKind ==
  /\ Nobody \in Signers /\ NoVersion \in SomeVersion /\ NoDriver \in Drivers
  /\ NoCatalog \in Catalogs /\ NoPackage \in Packages /\ NoCli \in Clis
  /\ NoRelease \in Releases /\ 1 \in Versions
<1>1. Nobody \in Signers /\ NoVersion \in SomeVersion /\ NoDriver \in Drivers
  BY DEF Signers, SomeVersion, Drivers
<1>2. NoCatalog \in Catalogs
  BY <1>1 DEF NoCatalog, Catalog, Catalogs, SomeVersion
<1>3. NoPackage \in Packages
  BY <1>1, <1>2 DEF NoPackage, Package, Packages, SomeVersion
<1>4. NoCli \in Clis
  BY <1>1, <1>3 DEF NoCli, Cli, Clis, SomeTarget
<1>5. NoRelease \in Releases
  BY <1>1, <1>3, <1>4 DEF NoRelease, Releases
<1>6. 1 \in Versions
  BY BuildAssumption DEF Versions
<1> QED
  BY <1>1, <1>2, <1>3, <1>4, <1>5, <1>6

\* A step of the job that only moves it on.
LEMMA Moves ==
  ASSUME job \in Jobs, NEW s \in Steps, Goto(s)
  PROVE  /\ job' \in Jobs /\ job'.step = s
         /\ job'.target = job.target /\ job'.copied = job.copied /\ job'.asked = job.asked
         /\ job'.driverCert = job.driverCert /\ job'.cliCert = job.cliCert
         /\ job'.number = job.number
<1> QED
  BY DEF Goto, Jobs

\* One target's file is replaced.
LEMMA Replaced ==
  ASSUME NEW S, NEW f \in [Targets -> S], NEW t \in Targets, NEW x \in S
  PROVE  LET g == [f EXCEPT ![t] = x]
         IN  g \in [Targets -> S] /\ g[t] = x /\ \A u \in Targets \ {t} : g[u] = f[u]
<1> QED
  OBVIOUS

\* A fresh checkout has no files.
LEMMA BuildInit ==
  ASSUME Init PROVE BuildInv
<1>1. Kinds
  <2>1. job \in Jobs
    BY NothingHasItsKind, BuildAssumption DEF Init, NoJob, Jobs, Steps, SomeTarget
  <2>2. \A t \in Targets : cargoCli[t].by = Nobody
    BY DEF Init, NoCli, Cli
  <2> QED
    BY <2>1, <2>2, NothingHasItsKind DEF Init, Kinds
<1>2. job.step = "none"
  BY DEF Init, NoJob
<1>3. Progress
  BY <1>2
  DEF Progress, At, BuildSteps, FromTrust, FromSignDriver, FromCatalog, FromCargo,
      FromCopyCli, ToTheEnd
<1>4. Records
  BY DEF Init, Records, OneBuild, NoPackage, Package, NoDriver, Driver
<1>5. Packaging
  BY <1>2 DEF Packaging, At
<1> QED
  BY <1>1, <1>3, <1>4, <1>5 DEF BuildInv

\* A build starts from whatever files there are.
LEMMA StartBuildStep ==
  ASSUME BuildInv, NEW t \in Targets, NEW asked \in Signers, NEW cli \in Signers,
         StartBuild(t, asked, cli)
  PROVE  BuildInv'
<1>1. /\ job' \in Jobs /\ job'.step = "msbuild" /\ job'.target = t /\ job'.copied = 0
  <2>1. job.number + 1 \in 0..MaxJobs
    BY BuildAssumption DEF BuildInv, Kinds, Jobs, StartBuild
  <2> QED
    BY <2>1, NothingHasItsKind DEF StartBuild, Jobs, Steps, SomeTarget
<1>2. UNCHANGED <<version, files>>
  BY DEF StartBuild
<1>3. Kinds' /\ Records'
  BY <1>1, <1>2 DEF BuildInv, Kinds, Records, files
<1>4. Progress' /\ Packaging'
  BY <1>1
  DEF Progress, Packaging, At, T, BuildSteps, FromTrust, FromSignDriver, FromCatalog,
      FromCargo, FromCopyCli, ToTheEnd
<1> QED
  BY <1>3, <1>4 DEF BuildInv

\* MSBuild writes driver and symbols of the same version.
LEMMA MsBuildStep ==
  ASSUME BuildInv, NEW platform \in Targets, MsBuild(platform)
  PROVE  BuildInv'
<1> DEFINE sys == Driver(version, platform, Nobody)
           made == Package(sys, version, Catalog(sys, version, Nobody))
<1>1. /\ job \in Jobs /\ job.step = "msbuild" /\ T \in Targets /\ Goto("reset")
      /\ job.copied = 0
  BY DEF BuildInv, Kinds, Progress, MsBuild, At, BuildSteps
<1>2. /\ job' \in Jobs /\ job'.step = "reset" /\ job'.target = T /\ job'.copied = 0
  BY <1>1, Moves DEF Steps, T
<1>3. made \in Packages /\ made.sys.version = version
  <2>1. sys \in Drivers /\ sys.version = version
    BY NothingHasItsKind DEF Driver, Drivers, BuildInv, Kinds
  <2>2. Catalog(sys, version, Nobody) \in Catalogs
    BY <2>1, NothingHasItsKind DEF Catalog, Catalogs, BuildInv, Kinds
  <2> QED
    BY <2>1, <2>2 DEF Package, Packages, BuildInv, Kinds
<1>4. /\ built' = [built EXCEPT ![T] = [package |-> made, symbols |-> version]]
      /\ UNCHANGED <<version, package, outDir, cargoCli, bin, manifest, certificate, trusted,
                     archive>>
  BY DEF MsBuild
<1> HIDE DEF made
<1>5. Kinds'
  BY <1>1, <1>2, <1>3, <1>4 DEF BuildInv, Kinds, SomeVersion
<1>6. Records'
  BY <1>1, <1>3, <1>4 DEF BuildInv, Kinds, Records
<1>7. Progress' /\ Packaging'
  BY <1>1, <1>2
  DEF Progress, Packaging, At, T, BuildSteps, FromTrust, FromSignDriver, FromCatalog,
      FromCargo, FromCopyCli, ToTheEnd
<1> QED
  BY <1>5, <1>6, <1>7 DEF BuildInv

\* The checked driver is the build's; the directory is empty now.
LEMMA ResetStep ==
  ASSUME BuildInv, ResetDirectory
  PROVE  BuildInv'
<1>1. /\ job \in Jobs /\ job.step = "reset" /\ T \in Targets /\ Goto("copy")
      /\ built[T].package.sys.target = T /\ job.copied = 0
  BY DEF BuildInv, Kinds, Progress, ResetDirectory, At, BuildSteps, RightArchitecture
<1>2. job' \in Jobs /\ job'.step = "copy" /\ job'.target = T /\ job'.copied = 0
  BY <1>1, Moves DEF Steps, T
<1>3. /\ package' = [package EXCEPT ![T] = NoPackage]
      /\ UNCHANGED <<version, built, outDir, cargoCli, bin, manifest, certificate, trusted,
                     archive>>
  BY DEF ResetDirectory
<1>4. Kinds' /\ Records'
  BY <1>1, <1>2, <1>3, NothingHasItsKind DEF BuildInv, Kinds, Records
<1>5. Progress' /\ Packaging'
  BY <1>1, <1>2, <1>3
  DEF Progress, Packaging, At, T, BuildSteps, FromTrust, FromSignDriver, FromCatalog,
      FromCargo, FromCopyCli, ToTheEnd
<1> QED
  BY <1>4, <1>5 DEF BuildInv

\* The driver is the first file that is copied.
LEMMA CopyFileStep ==
  ASSUME BuildInv, CopyFile
  PROVE  BuildInv'
<1>1. /\ job \in Jobs /\ job.step = "copy" /\ T \in Targets /\ job.copied \in 0..2
      /\ built[T].package.sys.target = T /\ package[T] \in Packages
      /\ built[T].package \in Packages
      /\ job.copied > 0 => package[T].sys = built[T].package.sys
  BY DEF BuildInv, Kinds, Progress, CopyFile, At, BuildSteps, FromTrust, FromSignDriver,
     FromCatalog, FromCargo, FromCopyCli, ToTheEnd, MoreToCopy, PackageFiles, Jobs
<1>2. /\ job' \in Jobs /\ job'.step = "copy" /\ job'.target = T
      /\ job'.copied = job.copied + 1
  BY <1>1 DEF CopyFile, Jobs, T
<1>3. /\ UNCHANGED <<version, built, outDir, cargoCli, bin, manifest, certificate, trusted,
                     archive>>
      /\ LET file == PackageFiles[job.copied + 1]
         IN  package' = [package EXCEPT ![T][file] = built[T].package[file]]
  BY DEF CopyFile
<1>4. package' \in [Targets -> Packages] /\ package'[T].sys = built[T].package.sys
  <2> DEFINE p == package[T]
             b == built[T].package
  <2>0. package \in [Targets -> Packages]
    BY DEF BuildInv, Kinds
  <2>1. CASE job.copied = 0
    <3>0. PackageFiles[job.copied + 1] = "sys"
      BY <2>1 DEF PackageFiles
    <3>1. package' = [package EXCEPT ![T].sys = b.sys]
      BY <1>3, <3>0
    <3>2. package' = [package EXCEPT ![T] = [p EXCEPT !.sys = b.sys]]
      BY <1>1, <2>0, <3>1
    <3>3. [p EXCEPT !.sys = b.sys] \in Packages /\ [p EXCEPT !.sys = b.sys].sys = b.sys
      BY <1>1 DEF Packages
    <3> QED
      BY <1>1, <2>0, <3>2, <3>3, Replaced
  <2>2. CASE job.copied = 1
    <3>0. PackageFiles[job.copied + 1] = "inf"
      BY <2>2 DEF PackageFiles
    <3>1. package' = [package EXCEPT ![T].inf = b.inf]
      BY <1>3, <3>0
    <3>2. package' = [package EXCEPT ![T] = [p EXCEPT !.inf = b.inf]]
      BY <1>1, <2>0, <3>1
    <3>3. [p EXCEPT !.inf = b.inf] \in Packages /\ [p EXCEPT !.inf = b.inf].sys = b.sys
      BY <1>1, <2>2 DEF Packages
    <3> QED
      BY <1>1, <2>0, <3>2, <3>3, Replaced
  <2>3. CASE job.copied = 2
    <3>0. PackageFiles[job.copied + 1] = "cat"
      BY <2>3 DEF PackageFiles
    <3>1. package' = [package EXCEPT ![T].cat = b.cat]
      BY <1>3, <3>0
    <3>2. package' = [package EXCEPT ![T] = [p EXCEPT !.cat = b.cat]]
      BY <1>1, <2>0, <3>1
    <3>3. [p EXCEPT !.cat = b.cat] \in Packages /\ [p EXCEPT !.cat = b.cat].sys = b.sys
      BY <1>1, <2>3 DEF Packages
    <3> QED
      BY <1>1, <2>0, <3>2, <3>3, Replaced
  <2> QED
    BY <1>1, <2>1, <2>2, <2>3
<1>5. Kinds' /\ Records'
  BY <1>1, <1>2, <1>3, <1>4 DEF BuildInv, Kinds, Records
<1>6. Progress' /\ Packaging'
  BY <1>1, <1>2, <1>3, <1>4
  DEF Progress, Packaging, At, T, BuildSteps, FromTrust, FromSignDriver, FromCatalog,
      FromCargo, FromCopyCli, ToTheEnd
<1> QED
  BY <1>5, <1>6 DEF BuildInv

\* The certificate changes when the package is complete, before anything is signed.
LEMMA CertificateStep ==
  ASSUME BuildInv, NEW found \in Certificates, Certificate(found)
  PROVE  BuildInv'
<1>1. /\ job \in Jobs /\ job.step = "copy" /\ T \in Targets /\ Goto("trust")
      /\ built[T].package.sys.target = T /\ package[T].sys = built[T].package.sys
  <2>1. job.copied > 0
    BY DEF Certificate, MoreToCopy, PackageFiles, BuildInv, Kinds, Jobs
  <2> QED
    BY <2>1
    DEF BuildInv, Kinds, Progress, Certificate, At, BuildSteps, FromTrust, FromSignDriver,
        FromCatalog, FromCargo, FromCopyCli, ToTheEnd
<1>2. job' \in Jobs /\ job'.step = "trust" /\ job'.target = T
  BY <1>1, Moves DEF Steps, T
<1>3. /\ certificate' = found
      /\ UNCHANGED <<version, built, package, outDir, cargoCli, bin, manifest, trusted, archive>>
  BY DEF Certificate
<1>4. Kinds' /\ Records'
  BY <1>1, <1>2, <1>3 DEF BuildInv, Kinds, Records, Signers
<1>5. Progress' /\ Packaging'
  BY <1>1, <1>2, <1>3
  DEF Progress, Packaging, At, T, BuildSteps, FromTrust, FromSignDriver, FromCatalog,
      FromCargo, FromCopyCli, ToTheEnd
<1> QED
  BY <1>4, <1>5 DEF BuildInv

\* From here on the build signs with the certificate in the file.
LEMMA TrustStep ==
  ASSUME BuildInv, NEW skip \in BOOLEAN, Trust(skip)
  PROVE  BuildInv'
<1>1. /\ job \in Jobs /\ job.step = "trust" /\ T \in Targets
      /\ built[T].package.sys.target = T /\ certificate \in Certificates
      /\ package[T].sys.version = built[T].package.sys.version
  BY DEF BuildInv, Kinds, Progress, Trust, At, BuildSteps, FromTrust, FromSignDriver,
      FromCatalog, FromCargo, FromCopyCli, ToTheEnd
<1>2. /\ job' \in Jobs /\ job'.step = "signDriver" /\ job'.target = T
      /\ job'.driverCert = certificate
  <2>1. certificate \in Signers /\ job.cliCert \in Signers
    BY <1>1 DEF Signers, Jobs
  <2>2. PICK c \in Signers :
          job' = [job EXCEPT !.step = "signDriver", !.asked = Nobody,
                             !.driverCert = certificate, !.cliCert = c]
    BY <2>1 DEF Trust
  <2>3. Nobody \in Signers /\ "signDriver" \in Steps
    BY NothingHasItsKind DEF Steps
  <2> DEFINE signing == [job EXCEPT !.step = "signDriver", !.driverCert = certificate,
                                    !.cliCert = c]
  <2>4. /\ signing \in Jobs /\ signing.step = "signDriver" /\ signing.target = T
        /\ signing.driverCert = certificate
    BY <1>1, <2>1, <2>3 DEF Jobs, T
  <2>5. job' = [signing EXCEPT !.asked = Nobody]
    BY <1>1, <2>2 DEF Jobs
  <2> HIDE DEF signing
  <2>6. /\ [signing EXCEPT !.asked = Nobody] \in Jobs /\ job'.step = signing.step
        /\ job'.target = signing.target /\ job'.driverCert = signing.driverCert
    BY <2>3, <2>4, <2>5 DEF Jobs
  <2> QED
    BY <2>4, <2>5, <2>6
<1>3. /\ trusted' \subseteq Certificates
      /\ UNCHANGED <<version, built, package, outDir, cargoCli, bin, manifest, certificate,
                     archive>>
  BY <1>1 DEF Trust, BuildInv, Kinds
<1>4. Kinds' /\ Records'
  BY <1>1, <1>2, <1>3 DEF BuildInv, Kinds, Records
<1>5. Progress' /\ Packaging'
  BY <1>1, <1>2, <1>3
  DEF Progress, Packaging, At, T, BuildSteps, FromTrust, FromSignDriver, FromCatalog,
      FromCargo, FromCopyCli, ToTheEnd
<1> QED
  BY <1>4, <1>5 DEF BuildInv

\* Signing replaces the signer of a driver, and nothing else of it.
LEMMA SignDriverStep ==
  ASSUME BuildInv, SignDriver
  PROVE  BuildInv'
<1>1. /\ job \in Jobs /\ job.step = "signDriver" /\ T \in Targets /\ Goto("catalog")
      /\ built[T].package.sys.target = T /\ certificate \in Certificates
      /\ job.driverCert = certificate /\ package[T].sys.target = T
      /\ package[T].sys.version = built[T].package.sys.version
  BY DEF BuildInv, Kinds, Progress, SignDriver, At, RightArchitecture, BuildSteps, FromTrust,
         FromSignDriver, FromCatalog, FromCargo, FromCopyCli, ToTheEnd
<1>2. /\ job' \in Jobs /\ job'.step = "catalog" /\ job'.target = T
      /\ job'.driverCert = certificate
  BY <1>1, Moves DEF Steps, T
<1> DEFINE d == package[T].sys
           signed == [d EXCEPT !.by = job.driverCert]
           p == [package[T] EXCEPT !.sys = signed, !.cat = NoCatalog]
<1>3. package \in [Targets -> Packages] /\ package[T] \in Packages
  BY <1>1 DEF BuildInv, Kinds
<1>4. /\ package' = [package EXCEPT ![T].sys.by = job.driverCert, ![T].cat = NoCatalog]
      /\ UNCHANGED <<version, built, outDir, cargoCli, bin, manifest, certificate, trusted,
                     archive>>
  BY DEF SignDriver
<1>5. package' = [package EXCEPT ![T] = p]
  BY <1>1, <1>3, <1>4 DEF Packages
<1>6. /\ signed \in Drivers /\ signed.target = T /\ signed.version = d.version
      /\ signed.by = certificate
  <2>1. d \in Drivers /\ T # "none"
    BY <1>1, <1>3 DEF Packages, Targets
  <2>2. d \in [version : Versions, target : Targets, by : Signers]
    BY <1>1, <2>1 DEF Drivers, NoDriver, Driver
  <2> QED
    BY <1>1, <2>2 DEF Drivers, Signers
<1>7. p \in Packages /\ p.sys = signed
  BY <1>3, <1>6, NothingHasItsKind DEF Packages
<1>8. /\ package' \in [Targets -> Packages] /\ package'[T].sys.target = T
      /\ package'[T].sys.by = certificate
      /\ package'[T].sys.version = built[T].package.sys.version
  <2> HIDE DEF p
  <2>1. package' \in [Targets -> Packages] /\ package'[T] = p
    BY <1>1, <1>3, <1>5, <1>7, Replaced
  <2> QED
    BY <1>1, <1>6, <1>7, <2>1
<1>9. Kinds' /\ Records'
  BY <1>1, <1>2, <1>4, <1>8 DEF BuildInv, Kinds, Records
<1>10. Progress' /\ Packaging'
  BY <1>1, <1>2, <1>4, <1>8
  DEF Progress, Packaging, At, T, BuildSteps, FromTrust, FromSignDriver, FromCatalog,
      FromCargo, FromCopyCli, ToTheEnd
<1> QED
  BY <1>9, <1>10 DEF BuildInv

\* Inf2Cat replaces the catalog, and nothing else of the package.
LEMMA CreateCatalogStep ==
  ASSUME BuildInv, NEW sys, NEW inf, CreateCatalog(sys, inf)
  PROVE  BuildInv'
<1>1. /\ job \in Jobs /\ job.step = "catalog" /\ T \in Targets /\ Goto("signCatalog")
      /\ built[T].package.sys.target = T /\ certificate \in Certificates
      /\ job.driverCert = certificate /\ package[T].sys.target = T
      /\ package[T].sys.by = job.driverCert
      /\ package[T].sys.version = built[T].package.sys.version
  BY DEF BuildInv, Kinds, Progress, CreateCatalog, At, BuildSteps, FromTrust, FromSignDriver,
      FromCatalog, FromCargo, FromCopyCli, ToTheEnd
<1>2. /\ job' \in Jobs /\ job'.step = "signCatalog" /\ job'.target = T
      /\ job'.driverCert = job.driverCert
  BY <1>1, Moves DEF Steps, T
<1> DEFINE c == Catalog(sys, inf, Nobody)
           p == [package[T] EXCEPT !.cat = c]
<1>3. package \in [Targets -> Packages] /\ package[T] \in Packages
  BY <1>1 DEF BuildInv, Kinds
<1>4. /\ package' = [package EXCEPT ![T].cat = c]
      /\ sys \in {package[T].sys, NoDriver} /\ inf \in {package[T].inf, NoVersion}
      /\ UNCHANGED <<version, built, outDir, cargoCli, bin, manifest, certificate, trusted,
                     archive>>
  BY DEF CreateCatalog
<1>5. c \in Catalogs
  BY <1>3, <1>4, NothingHasItsKind DEF Catalog, Catalogs, Packages, SomeVersion
<1> HIDE DEF c
<1>6. p \in Packages /\ p.sys = package[T].sys
  BY <1>3, <1>5 DEF Packages
<1>7. package' = [package EXCEPT ![T] = p]
  BY <1>1, <1>3, <1>4
<1>8. package' \in [Targets -> Packages] /\ package'[T].sys = package[T].sys
  <2> HIDE DEF p
  <2> QED
    BY <1>1, <1>3, <1>6, <1>7, Replaced
<1>9. Kinds' /\ Records'
  BY <1>1, <1>2, <1>4, <1>8 DEF BuildInv, Kinds, Records
<1>10. Progress' /\ Packaging'
  BY <1>1, <1>2, <1>4, <1>8
  DEF Progress, Packaging, At, T, BuildSteps, FromTrust, FromSignDriver, FromCatalog,
      FromCargo, FromCopyCli, ToTheEnd
<1> QED
  BY <1>9, <1>10 DEF BuildInv

\* Signing replaces the signer of the catalog, and nothing else of the package.
LEMMA SignCatalogStep ==
  ASSUME BuildInv, SignCatalog
  PROVE  BuildInv'
<1>1. /\ job \in Jobs /\ job.step = "signCatalog" /\ T \in Targets /\ Goto("cargo")
      /\ built[T].package.sys.target = T /\ certificate \in Certificates
      /\ job.driverCert = certificate /\ package[T].sys.target = T
      /\ package[T].sys.by = job.driverCert
      /\ package[T].sys.version = built[T].package.sys.version
  BY DEF BuildInv, Kinds, Progress, SignCatalog, At, BuildSteps, FromTrust, FromSignDriver,
      FromCatalog, FromCargo, FromCopyCli, ToTheEnd
<1>2. /\ job' \in Jobs /\ job'.step = "cargo" /\ job'.target = T
      /\ job'.driverCert = job.driverCert
  BY <1>1, Moves DEF Steps, T
<1> DEFINE c == [package[T].cat EXCEPT !.by = job.driverCert]
           p == [package[T] EXCEPT !.cat = c]
<1>3. package \in [Targets -> Packages] /\ package[T] \in Packages
  BY <1>1 DEF BuildInv, Kinds
<1>4. /\ package' = [package EXCEPT ![T].cat.by = job.driverCert]
      /\ UNCHANGED <<version, built, outDir, cargoCli, bin, manifest, certificate, trusted,
                     archive>>
  BY DEF SignCatalog
<1>5. package' = [package EXCEPT ![T] = p]
  BY <1>1, <1>3, <1>4
<1>6. c \in Catalogs /\ c.by = job.driverCert
  BY <1>1, <1>3 DEF Catalogs, Packages, Jobs
<1> HIDE DEF c
<1>7. p \in Packages /\ p.sys = package[T].sys /\ p.cat = c
  BY <1>3, <1>6 DEF Packages
<1>8. /\ package' \in [Targets -> Packages] /\ package'[T].sys = package[T].sys
      /\ package'[T].cat.by = job.driverCert
  <2> HIDE DEF p
  <2> QED
    BY <1>1, <1>3, <1>5, <1>6, <1>7, Replaced
<1>9. Kinds' /\ Records'
  BY <1>1, <1>2, <1>4, <1>8 DEF BuildInv, Kinds, Records
<1>10. Progress' /\ Packaging'
  BY <1>1, <1>2, <1>4, <1>8
  DEF Progress, Packaging, At, T, BuildSteps, FromTrust, FromSignDriver, FromCatalog,
      FromCargo, FromCopyCli, ToTheEnd
<1> QED
  BY <1>9, <1>10 DEF BuildInv

\* cargo runs after the package was verified; what it embeds may be an older package.
LEMMA CargoBuildStep ==
  ASSUME BuildInv, NEW rerun \in BOOLEAN, CargoBuild(rerun)
  PROVE  BuildInv'
<1>1. /\ job \in Jobs /\ job.step = "cargo" /\ T \in Targets /\ Goto("copyCli")
      /\ built[T].package.sys.target = T /\ certificate \in Certificates
      /\ job.driverCert = certificate /\ package[T].sys.target = T
      /\ package[T].sys.by = job.driverCert /\ package[T].cat.by = job.driverCert
      /\ package[T].sys.version = built[T].package.sys.version
  BY DEF BuildInv, Kinds, Progress, CargoBuild, At, BuildSteps, FromTrust, FromSignDriver,
      FromCatalog, FromCargo, FromCopyCli, ToTheEnd
<1>2. /\ job' \in Jobs /\ job'.step = "copyCli" /\ job'.target = T
      /\ job'.driverCert = job.driverCert
  BY <1>1, Moves DEF Steps, T
<1> DEFINE embedded == IF rerun THEN package[T] ELSE outDir[T]
           exe == Cli(version, T, Nobody, embedded)
<1>3. /\ outDir' = [outDir EXCEPT ![T] = embedded]
      /\ cargoCli' = [cargoCli EXCEPT ![T] = exe]
      /\ UNCHANGED <<version, built, package, bin, manifest, certificate, trusted, archive>>
  BY DEF CargoBuild
<1>4. embedded \in Packages
  BY <1>1 DEF BuildInv, Kinds
<1> HIDE DEF embedded
<1>5. exe \in Clis /\ exe.by = Nobody
  BY <1>1, <1>4, NothingHasItsKind DEF Cli, Clis, SomeVersion, SomeTarget, BuildInv, Kinds
<1> HIDE DEF exe
<1>6. /\ outDir' \in [Targets -> Packages] /\ cargoCli' \in [Targets -> Clis]
      /\ \A t \in Targets : cargoCli'[t].by = Nobody
  BY <1>1, <1>3, <1>4, <1>5 DEF BuildInv, Kinds
<1>7. Kinds' /\ Records'
  BY <1>2, <1>3, <1>6 DEF BuildInv, Kinds, Records
<1>8. Installable(package[T], T, job.driverCert)
  BY <1>1 DEF CargoBuild, CatalogCovers, Installable
<1>9. Progress' /\ Packaging'
  BY <1>1, <1>2, <1>3, <1>8
  DEF Progress, Packaging, At, T, Installable, BuildSteps, FromTrust, FromSignDriver,
      FromCatalog, FromCargo, FromCopyCli, ToTheEnd
<1> QED
  BY <1>7, <1>9 DEF BuildInv

\* The executable is copied to where it is signed.
LEMMA CopyCliStep ==
  ASSUME BuildInv, CopyCli
  PROVE  BuildInv'
<1>1. /\ job \in Jobs /\ job.step = "copyCli" /\ T \in Targets /\ Goto("signCli")
  BY DEF BuildInv, Kinds, Progress, CopyCli, At, BuildSteps, FromTrust, FromSignDriver,
      FromCatalog, FromCargo, FromCopyCli, ToTheEnd
<1>2. /\ job' \in Jobs /\ job'.step = "signCli" /\ job'.target = T
      /\ job'.driverCert = job.driverCert
  BY <1>1, Moves DEF Steps, T
<1>3. /\ bin' \in [Targets -> Clis]
      /\ UNCHANGED <<version, built, package, outDir, cargoCli, manifest, certificate, trusted,
                     archive>>
  BY <1>1 DEF CopyCli, BuildInv, Kinds
<1>4. Kinds' /\ Records'
  BY <1>2, <1>3 DEF BuildInv, Kinds, Records
<1>5. Progress' /\ Packaging'
  BY <1>1, <1>2, <1>3
  DEF BuildInv, Progress, Packaging, At, T, Installable, BuildSteps, FromTrust,
      FromSignDriver, FromCatalog, FromCargo, FromCopyCli, ToTheEnd
<1> QED
  BY <1>4, <1>5 DEF BuildInv

\* Signing replaces the signer of the executable.
LEMMA SignCliStep ==
  ASSUME BuildInv, SignCli
  PROVE  BuildInv'
<1>1. /\ job \in Jobs /\ job.step = "signCli" /\ T \in Targets /\ Goto("manifest")
  BY DEF BuildInv, Kinds, Progress, SignCli, At, BuildSteps, FromTrust, FromSignDriver,
      FromCatalog, FromCargo, FromCopyCli, ToTheEnd
<1>2. /\ job' \in Jobs /\ job'.step = "manifest" /\ job'.target = T
      /\ job'.driverCert = job.driverCert /\ job'.cliCert = job.cliCert
  BY <1>1, Moves DEF Steps, T
<1> DEFINE exe == [bin[T] EXCEPT !.by = job.cliCert]
<1>3. /\ bin' = [bin EXCEPT ![T].by = job.cliCert]
      /\ UNCHANGED <<version, built, package, outDir, cargoCli, manifest, certificate, trusted,
                     archive>>
  BY DEF SignCli
<1>4. bin \in [Targets -> Clis] /\ bin[T] \in Clis /\ job.cliCert \in Signers
  BY <1>1 DEF BuildInv, Kinds, Jobs
<1>5. bin' = [bin EXCEPT ![T] = exe]
  BY <1>1, <1>3, <1>4
<1>6. exe \in Clis /\ exe.by = job.cliCert
  BY <1>4 DEF Clis
<1>7. bin' \in [Targets -> Clis] /\ bin'[T].by = job.cliCert
  <2> HIDE DEF exe
  <2> QED
    BY <1>1, <1>4, <1>5, <1>6, Replaced
<1>8. Kinds' /\ Records'
  BY <1>2, <1>3, <1>7 DEF BuildInv, Kinds, Records
<1>9. Progress' /\ Packaging'
  BY <1>1, <1>2, <1>3, <1>7
  DEF BuildInv, Progress, Packaging, At, T, Installable, BuildSteps, FromTrust,
      FromSignDriver, FromCatalog, FromCargo, FromCopyCli, ToTheEnd
<1> QED
  BY <1>8, <1>9 DEF BuildInv

\* The manifest of this build is of one build, because the executable was confirmed to carry
\* the package.
LEMMA WriteManifestStep ==
  ASSUME BuildInv, WriteManifest
  PROVE  BuildInv'
<1>1. /\ job \in Jobs /\ job.step = "manifest" /\ T \in Targets /\ Goto("done")
      /\ Installable(package[T], T, job.driverCert) /\ bin[T].by = job.cliCert
      /\ bin[T].embeds = package[T]
      /\ package[T].sys.version = built[T].package.sys.version
  BY DEF BuildInv, Kinds, Progress, WriteManifest, Confirmed, At, BuildSteps, FromTrust,
         FromSignDriver, FromCatalog, FromCargo, FromCopyCli, ToTheEnd
<1>2. /\ job' \in Jobs /\ job'.step = "done" /\ job'.target = T
      /\ job'.driverCert = job.driverCert /\ job'.cliCert = job.cliCert
  BY <1>1, Moves DEF Steps, T
<1>3. /\ manifest' = [manifest EXCEPT ![T] = ManifestOf]
      /\ UNCHANGED <<version, built, package, outDir, cargoCli, bin, certificate, trusted,
                     archive>>
  BY DEF WriteManifest
<1>4. ManifestOf \in Releases /\ OneBuild(ManifestOf, T)
  <2>1. /\ bin[T] \in Clis /\ package[T] \in Packages /\ built[T].symbols \in SomeVersion
        /\ job.driverCert \in Signers /\ job.cliCert \in Signers /\ certificate \in Signers
        /\ built[T].symbols = built[T].package.sys.version
    BY <1>1 DEF BuildInv, Kinds, Jobs, Records
  <2>2. ManifestOf \in Releases
    BY <2>1 DEF ManifestOf, Releases
  <2>3. OneBuild(ManifestOf, T)
    BY <1>1, <2>1 DEF ManifestOf, OneBuild
  <2> QED
    BY <2>2, <2>3
<1>5. manifest' \in [Targets -> Releases] /\ manifest'[T] = ManifestOf
      /\ \A t \in Targets \ {T} : manifest'[t] = manifest[t]
  BY <1>1, <1>3, <1>4, Replaced DEF BuildInv, Kinds
<1>6. Kinds'
  BY <1>2, <1>3, <1>5 DEF BuildInv, Kinds
<1>7. Records'
  BY <1>3, <1>4, <1>5 DEF BuildInv, Records
<1>8. ManifestOf' = ManifestOf
  BY <1>2, <1>3 DEF ManifestOf, T
<1>9. Progress' /\ Packaging'
  BY <1>1, <1>2, <1>3, <1>5, <1>8
  DEF BuildInv, Progress, Packaging, At, T, Installable, BuildSteps, FromTrust,
      FromSignDriver, FromCatalog, FromCargo, FromCopyCli, ToTheEnd
<1> QED
  BY <1>6, <1>7, <1>9 DEF BuildInv

\* A build or packaging that stops leaves the files as they are.
LEMMA FailStep ==
  ASSUME BuildInv, Fail
  PROVE  BuildInv'
<1>1. job' \in Jobs /\ job'.step = "failed"
  BY NothingHasItsKind DEF Fail, NoJob, Jobs, Steps, SomeTarget, BuildInv, Kinds
<1>2. UNCHANGED <<version, files>>
  BY DEF Fail
<1>3. Kinds' /\ Records'
  BY <1>1, <1>2 DEF BuildInv, Kinds, Records, files
<1>4. Progress' /\ Packaging'
  BY <1>1
  DEF Progress, Packaging, At, BuildSteps, FromTrust, FromSignDriver, FromCatalog, FromCargo,
      FromCopyCli, ToTheEnd
<1> QED
  BY <1>3, <1>4 DEF BuildInv

\* The packager starts from whatever files there are.
LEMMA StartPackagingStep ==
  ASSUME BuildInv, StartPackaging
  PROVE  BuildInv'
<1>1. job' \in Jobs /\ job'.step = "package" /\ job'.target = "x64" /\ job'.copied = 0
  <2>1. job.number + 1 \in 0..MaxJobs
    BY BuildAssumption DEF BuildInv, Kinds, Jobs, StartPackaging
  <2> QED
    BY <2>1, NothingHasItsKind
    DEF StartPackaging, NoJob, Architectures, Jobs, Steps, SomeTarget, Targets
<1>2. UNCHANGED <<version, files>>
  BY DEF StartPackaging
<1>3. Kinds' /\ Records'
  BY <1>1, <1>2 DEF BuildInv, Kinds, Records, files
<1>4. Progress'
  BY <1>1
  DEF Progress, At, BuildSteps, FromTrust, FromSignDriver, FromCatalog, FromCargo,
      FromCopyCli, ToTheEnd
<1>5. Packaging'
  BY <1>1 DEF Packaging, At, T, Architectures
<1> QED
  BY <1>3, <1>4, <1>5 DEF BuildInv

\* The checks of the packager touch nothing but an archive of an earlier release.
LEMMA CheckInputsStep ==
  ASSUME BuildInv, CheckInputs
  PROVE  BuildInv'
<1>1. /\ job.step = "package" /\ job.copied \in 0..1 /\ T \in Targets
      /\ T = Architectures[job.copied + 1] /\ Packable(T)
  BY DEF CheckInputs, BuildInv, Packaging, At, Architectures, Targets
<1>2. /\ job' \in Jobs /\ job'.step = "archive" /\ T' = T /\ job'.copied = job.copied
  BY Moves DEF CheckInputs, BuildInv, Kinds, Steps, T
<1>3. /\ archive' = [archive EXCEPT ![T] = NoRelease]
      /\ UNCHANGED <<version, built, package, outDir, cargoCli, bin, manifest, certificate,
                     trusted>>
  BY DEF CheckInputs
<1>4. /\ archive' \in [Targets -> Releases] /\ archive'[T] = NoRelease
      /\ \A t \in Targets \ {T} : archive'[t] = archive[t]
  BY <1>1, <1>3, NothingHasItsKind, Replaced DEF BuildInv, Kinds
<1>5. Kinds'
  BY <1>2, <1>3, <1>4 DEF BuildInv, Kinds
<1>6. Progress'
  BY <1>2
  DEF Progress, At, BuildSteps, FromTrust, FromSignDriver, FromCatalog, FromCargo,
      FromCopyCli, ToTheEnd
<1>7. Records'
  BY <1>1, <1>3, <1>4 DEF BuildInv, Records, OneBuild
<1>8. Packaging'
  <2>1. job.copied = 1 => archive'["x64"].certificate = certificate
    BY <1>1, <1>4 DEF BuildInv, Packaging, At, Architectures, Targets
  <2>2. Packable(T)'
    BY <1>1, <1>2, <1>3 DEF Packable, Inputs
  <2> QED
    BY <1>1, <1>2, <1>3, <2>1, <2>2 DEF Packaging, At
<1> QED
  BY <1>5, <1>6, <1>7, <1>8 DEF BuildInv

\* The packager archives what equals the manifest, so an archive is of the build that wrote
\* the manifest, and the certificate beside it is that build's.
LEMMA CreateArchiveStep ==
  ASSUME BuildInv, CreateArchive
  PROVE  BuildInv'
<1>1. /\ job \in Jobs /\ job.step = "archive" /\ job.copied \in 0..1 /\ T \in Targets
      /\ T = Architectures[job.copied + 1] /\ Packable(T)
  BY DEF CreateArchive, BuildInv, Kinds, Packaging, At, Architectures, Targets
<1>2. /\ manifest[T] # NoRelease /\ Inputs(T) = manifest[T]
      /\ manifest[T].driverCert = certificate /\ manifest[T].cliCert = certificate
      /\ archive' = [archive EXCEPT ![T] = manifest[T]]
      /\ UNCHANGED <<version, built, package, outDir, cargoCli, bin, manifest, certificate,
                     trusted>>
  BY <1>1 DEF CreateArchive, Packable
<1>3. manifest[T].certificate = certificate
  BY <1>2 DEF Inputs
<1>4. /\ archive' \in [Targets -> Releases] /\ archive'[T] = manifest[T]
      /\ \A t \in Targets \ {T} : archive'[t] = archive[t]
  BY <1>1, <1>2 DEF BuildInv, Kinds
<1>5. Records'
  BY <1>1, <1>2, <1>3, <1>4 DEF BuildInv, Records
<1>6. CASE job.copied = 0
  <2>1. T = "x64"
    BY <1>1, <1>6 DEF Architectures
  <2>2. job' \in Jobs /\ job'.step = "package" /\ job'.target = "ARM64" /\ job'.copied = 1
    <3>1. Len(Architectures) = 2 /\ Architectures[job.copied + 2] = "ARM64"
      BY <1>6 DEF Architectures
    <3>2. job' = [job EXCEPT !.step = "package", !.target = "ARM64", !.copied = @ + 1]
      BY <1>6, <3>1 DEF CreateArchive
    <3> QED
      <4>1. job' = [job EXCEPT !.step = "package", !.target = "ARM64", !.copied = 1]
        BY <1>1, <1>6, <3>2
      <4>2. job \in Jobs
        BY <1>1
      <4> DEFINE aimed == [job EXCEPT !.step = "package", !.target = "ARM64"]
      <4>3. aimed \in Jobs /\ aimed.step = "package" /\ aimed.target = "ARM64"
        BY <4>1, <4>2 DEF Jobs, Steps, SomeTarget, Targets
      <4>4. job' = [aimed EXCEPT !.copied = 1]
        BY <4>1, <4>2 DEF Jobs
      <4> HIDE DEF aimed
      <4> QED
        BY <4>3, <4>4 DEF Jobs
  <2>3. Kinds'
    BY <1>2, <1>4, <2>2 DEF BuildInv, Kinds
  <2>4. Progress'
    BY <2>2
    DEF Progress, At, BuildSteps, FromTrust, FromSignDriver, FromCatalog, FromCargo,
        FromCopyCli, ToTheEnd
  <2>5. Packaging'
    BY <1>2, <1>3, <1>4, <2>1, <2>2 DEF Packaging, At, T, Architectures
  <2> QED
    BY <1>5, <2>3, <2>4, <2>5 DEF BuildInv
<1>7. CASE job.copied = 1
  <2>1. T = "ARM64" /\ archive["x64"].certificate = certificate
    BY <1>1, <1>7 DEF Architectures, BuildInv, Packaging, At
  <2>2. job' \in Jobs /\ job'.step = "released"
    <3>1. job' = [job EXCEPT !.step = "released", !.copied = @ + 1]
      BY <1>7 DEF CreateArchive, Architectures
    <3> QED
      <4>1. job' = [job EXCEPT !.step = "released", !.copied = 2]
        BY <1>7, <3>1
      <4>2. job \in Jobs
        BY <1>1
      <4> DEFINE ended == [job EXCEPT !.step = "released"]
      <4>3. ended \in Jobs /\ ended.step = "released"
        BY <4>2 DEF Jobs, Steps
      <4>4. job' = [ended EXCEPT !.copied = 2]
        BY <4>1, <4>2 DEF Jobs
      <4> HIDE DEF ended
      <4> QED
        BY <4>3, <4>4 DEF Jobs
  <2>3. Kinds'
    BY <1>2, <1>4, <2>2 DEF BuildInv, Kinds
  <2>4. Progress'
    BY <2>2
    DEF Progress, At, BuildSteps, FromTrust, FromSignDriver, FromCatalog, FromCargo,
        FromCopyCli, ToTheEnd
  <2>5. Packaging'
    BY <1>2, <1>3, <1>4, <2>1, <2>2 DEF Packaging, At, Targets
  <2> QED
    BY <1>5, <2>3, <2>4, <2>5 DEF BuildInv
<1> QED
  BY <1>1, <1>6, <1>7

\* An edit of the sources changes no file that was made from them.
LEMMA EditStep ==
  ASSUME BuildInv, Edit
  PROVE  BuildInv'
<1>1. version' \in Versions /\ UNCHANGED <<files, job>>
  BY BuildAssumption DEF Edit, Versions, BuildInv, Kinds
<1> QED
  BY <1>1
  DEF files, BuildInv, Kinds, Progress, Records, Packaging, Packable, Inputs, At, T, ManifestOf

\* A plain cargo build changes cargo's files only.
LEMMA PlainCargoBuildStep ==
  ASSUME BuildInv, NEW t \in Targets, PlainCargoBuild(t)
  PROVE  BuildInv'
<1> DEFINE exe == Cli(version, t, Nobody, NoPackage)
<1>1. /\ outDir' = [outDir EXCEPT ![t] = NoPackage]
      /\ cargoCli' = [cargoCli EXCEPT ![t] = exe]
      /\ UNCHANGED <<version, built, package, bin, manifest, certificate, trusted, archive, job>>
  BY DEF PlainCargoBuild
<1>2. exe \in Clis /\ exe.by = Nobody
  BY NothingHasItsKind DEF Cli, Clis, SomeVersion, SomeTarget, BuildInv, Kinds
<1> HIDE DEF exe
<1>3. Kinds'
  BY <1>1, <1>2, NothingHasItsKind DEF BuildInv, Kinds
<1>4. Progress' /\ Records' /\ Packaging'
  BY <1>1 DEF BuildInv, Progress, Records, Packaging, Packable, Inputs, At, T, ManifestOf
<1> QED
  BY <1>3, <1>4 DEF BuildInv

\* Every step keeps the invariant.
LEMMA BuildStep ==
  ASSUME BuildInv, [Next]_vars
  PROVE  BuildInv'
<1>1. CASE UNCHANGED vars
  BY <1>1
  DEF vars, BuildInv, Kinds, Progress, Records, Packaging, Packable, Inputs, At, T, ManifestOf
<1> QED
  BY <1>1, StartBuildStep, MsBuildStep, ResetStep, CopyFileStep, CertificateStep, TrustStep,
     SignDriverStep, CreateCatalogStep, SignCatalogStep, CargoBuildStep, CopyCliStep,
     SignCliStep, WriteManifestStep, FailStep, StartPackagingStep, CheckInputsStep,
     CreateArchiveStep, EditStep, PlainCargoBuildStep
  DEF Next

-----------------------------------------------------------------------------
\* Whatever jobs ran before, wherever they stopped and whatever was edited or compiled in
\* between, the steps of build() and of package-release.ps1 keep their invariant.
THEOREM BuildInvariant == Spec => []BuildInv
<1> QED
  BY BuildInit, BuildStep, PTL DEF Spec

\* A build() that reports success leaves an executable that carries the package it signed,
\* one that Windows accepts, and a manifest that is true of them.
THEOREM BuildsAreCoherent == Spec => []BuildIsCoherent
<1>1. BuildInv => TypeOK
  <2> SUFFICES ASSUME BuildInv PROVE TypeOK
    OBVIOUS
  <2>1. job.step \in Steps /\ job.copied \in 0..Len(PackageFiles) /\ job.number \in 0..MaxJobs
    BY DEF BuildInv, Kinds, Jobs, PackageFiles
  <2>2. ASSUME NEW t \in Targets
        PROVE  /\ package[t] \in Packages /\ outDir[t] \in Packages
               /\ built[t].package \in Packages
               /\ bin[t].by \in Signers /\ cargoCli[t].by = Nobody
    <3>1. bin[t] \in Clis
      BY DEF BuildInv, Kinds
    <3> QED
      BY <3>1 DEF BuildInv, Kinds, Clis
  <2> QED
    BY <2>1, <2>2 DEF BuildInv, Kinds, TypeOK
<1>2. BuildInv => BuildShipsItsPackage
  BY DEF BuildInv, Progress, BuildShipsItsPackage, At, BuildSteps, FromTrust, FromSignDriver,
      FromCatalog, FromCargo, FromCopyCli, ToTheEnd
<1>3. BuildInv => ManifestTrue
  BY DEF BuildInv, Progress, ManifestTrue, ManifestOf, Installable, At, BuildSteps,
         FromTrust, FromSignDriver, FromCatalog, FromCargo, FromCopyCli, ToTheEnd
<1> QED
  BY <1>1, <1>2, <1>3, BuildInvariant, PTL DEF BuildIsCoherent

\* An archive that package-release.ps1 makes is of one build, and the archives of a release
\* share the certificate that signed them.
THEOREM ReleasesAreOfOneBuild == Spec => []ReleaseIsOneBuild
<1>1. BuildInv => ReleaseIsOneBuild
  BY DEF BuildInv, Records, OneBuild, Packaging, ReleaseIsOneBuild
<1> QED
  BY <1>1, BuildInvariant, PTL

=============================================================================
