SPECIFICATION Spec
CONSTANTS
  a = a
  b = b
  out1 = out1
  out2 = out2
  tmp1 = tmp1
  tmp2 = tmp2
  img1 = img1
  img2 = img2
  Jobs = {a, b}
  NoJob = NoJob
  NoDir = NoDir
  NoCkpt = NoCkpt
  Torn = Torn
  FrameFiles = {img1, img2}
  FilesOf <- Frames
  OutputDirs = {out1}
  TempDirs = {tmp1}
  OutputOf <- SharedOutput
  TempOf <- SharedTemp
  ResumeWindow = 1
  MaxAttempts = 2
  MaxCrashes = 1
  MaxTime = 1
INVARIANTS
  OutputsAreOwn
