CONSTANTS
  weather = weather
  spectrum = spectrum
  anniversary = anniversary
  heartbeat = heartbeat
  NoApp = NoApp
  APP_MAX_NUM = 4
  RegisterOrder <- FourApps
  GetParmApps <- OnlyWeather
  OnEventApps <- OnlyHeartbeat
  DebouncePasses = 1
  LoopDelay = 240
  CntMod = 3
SPECIFICATION HbSpec
INVARIANTS
  BreathingAnnounces
  ScreenTells
